---- MODULE Spec2Model ----
(***************************************************************************)
(* Session / request orchestration of the crypto portfolio tracker front   *)
(* end: the Credential Store and Request Gateway (js/api.js), the          *)
(* Dashboard controller (js/dashboard.js) and the Portfolio Detail         *)
(* controller (js/portfolio.js).                                           *)
(*                                                                         *)
(* JavaScript runs each handler to completion, so one action is one        *)
(* handler run up to its next await.  The remote service, the user and the *)
(* browser's timer queue are the environment.                              *)
(***************************************************************************)
EXTENDS Integers, Sequences, FiniteSets, Bags, TLC

VARIABLES
    store,          \* localStorage: [access_token, refresh_token], Null = no item
    page,           \* the document whose script is running
    urlId,          \* the id parameter of the document's URL (Null = none)
    location,       \* pending window.location.href assignment (Null = none)
    guardRedirect,  \* the module-level authentication check redirected
    pc,             \* position of init() in its awaited sequence
    listeners,      \* setupEventListeners() has run
    net,            \* network requests in flight, a bag
    userInfo,       \* #userInfo region
    portfolios,     \* dashboard.js: let portfolios
    listRegion,     \* #portfoliosList: "initial" | "error" | "empty" | "cards"
    cards,          \* #portfolio-value-<id> text of every rendered card
    stats,          \* #portfolioCount, #coinCount, #totalValue
    renders,        \* how many times renderPortfolios() ran in this document
    creates,        \* how many times the create-portfolio form was submitted
    valArrived,     \* per card of the latest render: what its valuation fetch brought
    portfolio,      \* portfolio.js: let portfolio (Null, or shown in the header)
    holdings,       \* portfolio.js: let holdings
    holdingsRegion, \* #holdingsContainer: [kind, rows]
    detailStats,    \* #totalValue, #totalCoins, #totalProfitLoss
    adds,           \* how many times the add-coin form was submitted
    insight,        \* #aiInsightsModal: [open, name, content]
    missing,        \* ids of the elements that the document of the detail view lacks
    inputValue,     \* #coinSearch value
    timers,         \* the browser's pending timeouts: [id, query, left]
    searchTimeout,  \* portfolio.js: let searchTimeout (Null, or a timeout id)
    results,        \* #coinSearchResults: [show, kind, items]
    sinceInput,     \* time passed since the last input event, up to the delay
    burst,          \* the field values of the input events of the current burst
    calls,          \* the searchCoins calls since the burst began: [query, waited]
    settled,        \* SpecApi: the response last answered to apiCall and its outcome
    messageEl,      \* entry view: #message, [text, type]
    redirects,      \* entry view: pending timeouts of the redirect to the dashboard
    form,           \* the form shown by the entry view: "login" or "register"
    switches        \* pending timeouts of the entry view that switch to the login form

dashVars == <<portfolios, listRegion, cards, stats, renders, creates, valArrived>>

detailVars == <<portfolio, holdings, holdingsRegion, detailStats, adds, insight,
                missing>>

authVars == <<messageEl, redirects, form, switches>>

searchVars == <<inputValue, timers, searchTimeout, results, sinceInput, burst,
                calls>>

vars == <<store, page, urlId, location, guardRedirect, pc, listeners, net,
          userInfo, dashVars, detailVars, searchVars, settled, authVars>>

-----------------------------------------------------------------------------
(* Bounds of the model *)

\* input events on the coin search field in one burst (no pause of the
\* debounce delay between them)
MaxInputs == 3
\* coin searches scheduled or awaiting their answer at once
MaxSearches == 2
\* time passes in steps of this many time units
TickStep == 150
\* create-portfolio submissions per document
MaxCreates == 1
\* add-coin submissions per document
MaxAdds == 1
\* AI insight requests in flight at once
MaxInsights == 2
\* login and registration calls awaiting their answer, and timeouts they set
\* pending, at once in the entry view
MaxAuthPending == 2
\* apiCalls in flight at once in SpecApi
MaxApiInFlight == 1

-----------------------------------------------------------------------------
(* JavaScript values *)

\* null / undefined: a missing localStorage item, a missing JSON field
Null == "<null>"

\* JavaScript truthiness of a string-or-null value
Truthy(v) == v # Null /\ v # ""

\* String.prototype.includes
includes(s, sub) ==
    \E i \in 1..(Len(s) - Len(sub) + 1) : SubSeq(s, i, i + Len(sub) - 1) = sub

\* String.prototype.trim, for blanks
RECURSIVE trimStart(_)
trimStart(s) == IF Len(s) > 0 /\ SubSeq(s, 1, 1) = " "
                THEN trimStart(SubSeq(s, 2, Len(s))) ELSE s
RECURSIVE trimEnd(_)
trimEnd(s) == IF Len(s) > 0 /\ SubSeq(s, Len(s), Len(s)) = " "
              THEN trimEnd(SubSeq(s, 1, Len(s) - 1)) ELSE s
trim(s) == trimEnd(trimStart(s))

\* a || b || c on string-or-null values
FirstTruthy(a, b, c) == IF Truthy(a) THEN a ELSE IF Truthy(b) THEN b ELSE c

-----------------------------------------------------------------------------
(* js/config.js *)

TOKEN_KEY == "access_token"
REFRESH_TOKEN_KEY == "refresh_token"

-----------------------------------------------------------------------------
(* js/api.js : Credential Store *)

getToken(s) == s[TOKEN_KEY]

isAuthenticated(s) == Truthy(getToken(s))

\* mutant: the refresh token is written whatever it is
saveTokenAlways(s, token, refreshToken) ==
    [s EXCEPT ![TOKEN_KEY] = token, ![REFRESH_TOKEN_KEY] = refreshToken]

\* localStorage.setItem stores the string of its value: "undefined" for a
\* missing token
saveToken(s, token, refreshToken) ==
    [s EXCEPT ![TOKEN_KEY] = IF token = Null THEN "undefined" ELSE token,
              ![REFRESH_TOKEN_KEY] = IF Truthy(refreshToken) THEN refreshToken ELSE @]

\* mutant: only the refresh token is removed
removeTokensRefreshOnly(s) == [s EXCEPT ![REFRESH_TOKEN_KEY] = Null]

removeTokens(s) == [s EXCEPT ![TOKEN_KEY] = Null, ![REFRESH_TOKEN_KEY] = Null]

-----------------------------------------------------------------------------
(* js/api.js : Request Gateway *)

\* options of the callers of this repository: none of them passes headers
NoHeaders == [ContentType |-> Null, Authorization |-> Null]
DefaultOptions == [skipAuth |-> FALSE, headers |-> NoHeaders]

\* mutant: the skipAuth option is ignored
apiCallHeadersIgnoreSkip(token, options) ==
    [ContentType |-> IF options.headers.ContentType # Null
                     THEN options.headers.ContentType ELSE "application/json",
     Authorization |-> IF Truthy(token) THEN "Bearer " \o token
                       ELSE options.headers.Authorization]

\* mutant: the default Content-Type wins over the caller's
apiCallHeadersDefaultWins(token, options) ==
    [ContentType |-> "application/json",
     Authorization |-> IF Truthy(token) /\ ~options.skipAuth
                       THEN "Bearer " \o token
                       ELSE options.headers.Authorization]

\* the headers of the outgoing request: the default Content-Type spread with
\* options.headers, then Authorization set from the stored token
apiCallHeaders(token, options) ==
    [ContentType |-> IF options.headers.ContentType # Null
                     THEN options.headers.ContentType ELSE "application/json",
     Authorization |-> IF Truthy(token) /\ ~options.skipAuth
                       THEN "Bearer " \o token
                       ELSE options.headers.Authorization]

\* Response.ok
ResponseOk(status) == status >= 200 /\ status <= 299

\* messages of the errors the runtime raises
FetchFailedMessage == "Failed to fetch"
JsonParseMessage == "Unexpected token < in JSON at position 0"
NullBodyMessage == "Cannot read properties of null (reading 'error')"

\* mutant: detail is preferred over error
ErrorMessageDetailFirst(body) == FirstTruthy(body.detail, body.error, "Request failed")

\* new Error(data.error || data.detail || 'Request failed')
ErrorMessage(body) == FirstTruthy(body.error, body.detail, "Request failed")

\* mutant: apiCall recovers from a failure and returns the body it has
apiCallOutcomeRecovers(resp) == [threw |-> FALSE, message |-> Null, data |-> resp.data]

\* What apiCall gives its caller for a response: the parsed body, or the error
\* it logs and rethrows.  resp.kind: "network" (fetch rejected), "text" (a body
\* that is no JSON), "null" (the JSON value null), "object" (a JSON object or array).
apiCallOutcome(resp) ==
    IF resp.kind = "network"
    THEN [threw |-> TRUE, message |-> FetchFailedMessage, data |-> resp.data]
    ELSE IF resp.kind = "text"
    THEN [threw |-> TRUE, message |-> JsonParseMessage, data |-> resp.data]
    ELSE IF ResponseOk(resp.status)
    THEN [threw |-> FALSE, message |-> Null, data |-> resp.data]
    ELSE IF resp.kind = "null"
    THEN [threw |-> TRUE, message |-> NullBodyMessage, data |-> resp.data]
    ELSE [threw |-> TRUE, message |-> ErrorMessage(resp), data |-> resp.data]

\* console.error('API Error:', error) in the catch of apiCall: the message of
\* the error caught, Null when nothing was caught
apiCallLogged(resp) ==
    IF resp.kind = "network" THEN FetchFailedMessage
    ELSE IF resp.kind = "text" THEN JsonParseMessage
    ELSE IF ResponseOk(resp.status) THEN Null
    ELSE IF resp.kind = "null" THEN NullBodyMessage
    ELSE ErrorMessage(resp)

-----------------------------------------------------------------------------
(* Requests in flight *)

\* apiCall up to its await on fetch: reads the token, builds the headers.
\* op, arg name the endpoint; from names the awaiting continuation; stale
\* marks a valuation fetch whose cards have been rendered anew since.
Request(s, op, arg, from, options) ==
    [op |-> op, arg |-> arg, from |-> from, stale |-> FALSE,
     token |-> getToken(s), options |-> options,
     headers |-> apiCallHeaders(getToken(s), options)]

NoInsight == [open |-> FALSE, name |-> Null, content |-> "initial"]
NoMessage == [text |-> "", type |-> Null]

NoneSettled == [status |-> 0, kind |-> "none", error |-> Null, detail |-> Null,
                threw |-> FALSE, message |-> Null, logged |-> Null]

InFlight(n) == BagToSet(n)

\* the requests of n with the given op, issued by the given caller
Requests(n, op, from) == {r \in InFlight(n) : r.op = op /\ r.from = from}

\* how many requests with the given op, issued by the given caller, n holds
Count(n, op, from) ==
    BagCardinality([r \in Requests(n, op, from) |-> CopiesIn(r, n)])

Sent(n, r) == n (+) SetToBag({r})
Answered(n, r) == n (-) SetToBag({r})

-----------------------------------------------------------------------------
(* The remote service: what it may answer *)

Resp(status, kind, error, detail, data) ==
    [status |-> status, kind |-> kind, error |-> error, detail |-> detail, data |-> data]

\* failures of any endpoint: an authentication failure whose body names the
\* status, a missing resource (its message with and without the digits 401),
\* no connectivity; `none` is a value of the endpoint's payload type
Failures(none) ==
    { Resp(401, "object", Null, "401 Unauthorized", none),
      Resp(404, "object", Null, "Not found", none),
      Resp(404, "object", Null, "Portfolio 401 not found", none),
      Resp(0, "network", Null, Null, none) }

\* GET /auth/me
NoUser == [username |-> Null, email |-> Null]
UserResponses ==
    { Resp(200, "object", Null, Null, [username |-> "ann", email |-> "a@x.com"]) }
        \cup Failures(NoUser)

\* GET /portfolio: the lists the remote service answers with
Main == [id |-> "1", holdings_count |-> 3]
Alt == [id |-> "2", holdings_count |-> 0]
PortfolioLists == { <<>>, <<Main>>, <<Main, Alt>> }
ListResponses ==
    { Resp(200, "object", Null, Null, l) : l \in PortfolioLists } \cup Failures(<<>>)

\* GET /portfolio/{id}/valuation: total_value_usd and profit_loss in cents;
\* NoTotal = the field is missing.  A missing holdings field and an empty one
\* are read alike (valuation.holdings || [], valuation.holdings?.length || 0).
NoTotal == 0 - 1
Btc == [coin_id |-> "bitcoin", profit_loss |-> 500]
Eth == [coin_id |-> "ethereum", profit_loss |-> 0 - 200]
Valuations ==
    { [total_value_usd |-> NoTotal, holdings |-> <<>>],
      [total_value_usd |-> 123450, holdings |-> <<Btc>>],
      [total_value_usd |-> 123450, holdings |-> <<Btc, Eth>>] }
NoValuation == [total_value_usd |-> NoTotal, holdings |-> <<>>]
ValuationResponses ==
    { Resp(200, "object", Null, Null, v) : v \in Valuations }
        \cup { Resp(200, "null", Null, Null, NoValuation) }
        \cup Failures(NoValuation)

\* GET /portfolio/{id}
PortfolioResponses ==
    { Resp(200, "object", Null, Null, "Main") } \cup Failures(Null)

\* GET /portfolio/{id}/holdings: the coin ids of data.holdings
HoldingsResponses ==
    { Resp(200, "object", Null, Null, h) :
          h \in {<<>>, <<"bitcoin">>, <<"bitcoin", "ethereum">>} }
        \cup { Resp(200, "null", Null, Null, <<>>) }
        \cup Failures(<<>>)

\* GET /coins/search: the coin ids of data.results
SearchResponses ==
    { Resp(200, "object", Null, Null, l) : l \in {<<>>, <<"bitcoin">>} }
        \cup Failures(<<>>)

\* POST /portfolio/{id}/holdings
AddResponses ==
    { Resp(201, "object", Null, Null, Null),
      Resp(200, "null", Null, Null, Null) } \cup Failures(Null)

\* GET /ai/insights/{coinId}: the insights of that coin
InsightResponses(coinId) ==
    { Resp(200, "object", Null, Null, "insights on " \o coinId),
      Resp(200, "null", Null, Null, Null) } \cup Failures(Null)

\* POST /portfolio
CreateResponses ==
    { Resp(201, "object", Null, Null, Null),
      Resp(200, "null", Null, Null, Null) } \cup Failures(Null)

-----------------------------------------------------------------------------
(* Number.prototype.toLocaleString('en-US', two fraction digits), on cents *)

Pad(n, width) == IF width = 3 /\ n < 10 THEN "00" \o ToString(n)
                 ELSE IF (width = 3 /\ n < 100) \/ (width = 2 /\ n < 10)
                      THEN "0" \o ToString(n)
                      ELSE ToString(n)

RECURSIVE Grouped(_)
Grouped(n) == IF n < 1000 THEN ToString(n)
              ELSE Grouped(n \div 1000) \o "," \o Pad(n % 1000, 3)

FormatUSD(cents) == "$" \o Grouped(cents \div 100) \o "." \o Pad(cents % 100, 2)

-----------------------------------------------------------------------------
(* Session Guard: the catch of init(), the same in both protected views *)

\* error.message.includes('401')
isAuthFailure(message) == includes(message, "401")

\* the store and the pending navigation after init's catch ran on `message`
initCatch(s, loc, message) ==
    IF isAuthFailure(message)
    THEN [store |-> removeTokens(s), location |-> "index.html"]
    ELSE [store |-> s, location |-> loc]

-----------------------------------------------------------------------------
(* js/dashboard.js *)

NoStats == [portfolioCount |-> Null, coinCount |-> Null, totalValue |-> Null]
NoCards == [id \in {} |-> Null]
Pending == [nth |-> 0, threw |-> FALSE, total |-> NoTotal]

\* how many valuation fetches of the current render have been answered
Arrived(a) == Cardinality({id \in DOMAIN a : a[id].nth > 0})

RECURSIVE SumHoldings(_)
SumHoldings(list) ==
    IF list = <<>> THEN 0 ELSE Head(list).holdings_count + SumHoldings(Tail(list))

IdsOf(list) == {list[i].id : i \in 1..Len(list)}

\* mutant: loadUserInfo lets its error through to init
loadUserInfoRethrows(outcome) == outcome.message

\* the error loadUserInfo lets through to init: none, its catch logs and returns
loadUserInfoError(outcome) == Null

\* the error loadPortfolios lets through to its caller: none, its catch renders
\* the inline error
loadPortfoliosError(outcome) == Null

\* mutant: a failed fetch empties the list
portfoliosAfterReset(list, outcome) == IF outcome.threw THEN <<>> ELSE outcome.data

\* portfolios = await apiCall(...): assigned only when apiCall returns
portfoliosAfter(list, outcome) == IF outcome.threw THEN list ELSE outcome.data

\* mutant: the coin count is the number of portfolios
updateDashboardStatsCount(list) ==
    [portfolioCount |-> ToString(Len(list)),
     coinCount |-> ToString(Len(list)),
     totalValue |-> "$0.00"]

\* updateDashboardStats
updateDashboardStats(list) ==
    [portfolioCount |-> ToString(Len(list)),
     coinCount |-> ToString(SumHoldings(list)),
     totalValue |-> "$0.00"]

\* mutant: only the first portfolio's valuation is fetched
IssueValuationsFirst(n, s, list) ==
    IF list = <<>> THEN n
    ELSE Sent(n, Request(s, "valuation", Head(list).id, "card", DefaultOptions))

\* renderPortfolios: portfolios.forEach(portfolio => loadPortfolioValuation(portfolio.id))
RECURSIVE IssueValuations(_, _, _)
IssueValuations(n, s, list) ==
    IF list = <<>> THEN n
    ELSE IssueValuations(
             Sent(n, Request(s, "valuation", Head(list).id, "card", DefaultOptions)),
             s, Tail(list))

\* the valuation fetches of the cards that a new render replaces
Outdated(r) == IF r.op = "valuation" /\ r.from = "card"
               THEN [r EXCEPT !.stale = TRUE] ELSE r
MarkStale(n) ==
    [t \in {Outdated(r) : r \in InFlight(n)} |->
        (IF BagIn(t, n) THEN CopiesIn(t, n) ELSE 0)
        + (IF Outdated(t) = t /\ t.stale /\ BagIn([t EXCEPT !.stale = FALSE], n)
           THEN CopiesIn([t EXCEPT !.stale = FALSE], n) ELSE 0)]

\* the text loadPortfolioValuation puts in the card on success:
\* (valuation.total_value_usd || 0) formatted
ValuationText(valuation) ==
    IF valuation.total_value_usd = NoTotal THEN FormatUSD(0)
    ELSE FormatUSD(valuation.total_value_usd)

\* mutant: the value element is looked up without the portfolio id, so the
\* first card is written
UpdateCardFirst(c, portfolioId, text) ==
    IF Main.id \in DOMAIN c THEN [c EXCEPT ![Main.id] = text] ELSE c

\* document.getElementById(`portfolio-value-${portfolioId}`) and, if it exists,
\* valueEl.textContent = text
UpdateCard(c, portfolioId, text) ==
    IF portfolioId \in DOMAIN c THEN [c EXCEPT ![portfolioId] = text] ELSE c

\* mutant: the catch of loadPortfolioValuation only logs
ValuationFailedKeeps(c, portfolioId) == c

\* mutant: the catch of loadPortfolioValuation resets every card
ValuationFailedAll(c, portfolioId) == [id \in DOMAIN c |-> "$0.00"]

\* the catch of loadPortfolioValuation (apiCall threw, or valuation is null):
\* the card's value element, if it exists, shows '$0.00'
ValuationFailed(c, portfolioId) == UpdateCard(c, portfolioId, "$0.00")

\* mutant: init sets up the listeners before its first await
DashboardLoadRegisters ==
    /\ page = "dashboard" /\ pc = "start"
    /\ guardRedirect' = ~isAuthenticated(store)
    /\ location' = IF ~isAuthenticated(store) THEN "index.html" ELSE location
    /\ net' = Sent(net, Request(store, "me", Null, "init", DefaultOptions))
    /\ pc' = "loadUserInfo"
    /\ listeners' = TRUE
    /\ UNCHANGED <<store, page, urlId, userInfo, dashVars>>
    /\ UNCHANGED <<detailVars, searchVars, settled, authVars>>

\* module level of dashboard.js: the authentication check, then init() up to
\* its first await (loadUserInfo's apiCall)
DashboardLoad ==
    /\ page = "dashboard" /\ pc = "start"
    /\ guardRedirect' = ~isAuthenticated(store)
    /\ location' = IF ~isAuthenticated(store) THEN "index.html" ELSE location
    /\ net' = Sent(net, Request(store, "me", Null, "init", DefaultOptions))
    /\ pc' = "loadUserInfo"
    /\ UNCHANGED <<store, page, urlId, listeners, userInfo, dashVars>>
    /\ UNCHANGED <<detailVars, searchVars, settled, authVars>>

\* loadUserInfo resumes with the answer to GET /auth/me; init goes on to
\* loadPortfolios up to its apiCall
DashUserInfoResponse(r, resp) ==
    /\ page = "dashboard" /\ BagIn(r, net) /\ r.op = "me"
    /\ userInfo' = IF ~apiCallOutcome(resp).threw /\ resp.kind = "object"
                   THEN resp.data ELSE userInfo
    /\ IF loadUserInfoError(apiCallOutcome(resp)) # Null
       THEN /\ store' = initCatch(store, location, loadUserInfoError(apiCallOutcome(resp))).store
            /\ location' = initCatch(store, location, loadUserInfoError(apiCallOutcome(resp))).location
            /\ net' = Answered(net, r)
            /\ pc' = "failed"
       ELSE /\ net' = Sent(Answered(net, r), Request(store, "list", Null, "init", DefaultOptions))
            /\ pc' = "loadPortfolios"
            /\ UNCHANGED <<store, location>>
    /\ UNCHANGED <<page, urlId, guardRedirect, listeners, dashVars>>
    /\ UNCHANGED <<detailVars, searchVars, settled, authVars>>

\* loadPortfolios resumes with the answer to GET /portfolio; when init awaited
\* it, init goes on to setupEventListeners
DashPortfoliosResponse(r, resp) ==
    /\ page = "dashboard" /\ BagIn(r, net) /\ r.op = "list"
    /\ IF apiCallOutcome(resp).threw
       THEN /\ listRegion' = "error"
            /\ cards' = NoCards
            /\ net' = Answered(net, r)
            /\ portfolios' = portfoliosAfter(portfolios, apiCallOutcome(resp))
            /\ UNCHANGED <<stats, renders, valArrived>>
       ELSE /\ portfolios' = portfoliosAfter(portfolios, apiCallOutcome(resp))
            /\ stats' = updateDashboardStats(resp.data)
            /\ listRegion' = IF Len(resp.data) = 0 THEN "empty" ELSE "cards"
            /\ cards' = [id \in IdsOf(resp.data) |-> "Loading..."]
            /\ renders' = renders + 1
            /\ valArrived' = [id \in IdsOf(resp.data) |-> Pending]
            /\ net' = IssueValuations(MarkStale(Answered(net, r)), store, resp.data)
    /\ IF loadPortfoliosError(apiCallOutcome(resp)) # Null /\ r.from = "init"
       THEN /\ store' = initCatch(store, location, loadPortfoliosError(apiCallOutcome(resp))).store
            /\ location' = initCatch(store, location, loadPortfoliosError(apiCallOutcome(resp))).location
            /\ pc' = "failed"
            /\ UNCHANGED listeners
       ELSE /\ listeners' = IF r.from = "init" THEN TRUE ELSE listeners
            /\ pc' = IF r.from = "init" THEN "ready" ELSE pc
            /\ UNCHANGED <<store, location>>
    /\ UNCHANGED <<page, urlId, guardRedirect, userInfo, creates>>
    /\ UNCHANGED <<detailVars, searchVars, settled, authVars>>

\* loadPortfolioValuation resumes with the answer to GET /portfolio/{id}/valuation
DashValuationResponse(r, resp) ==
    /\ page = "dashboard" /\ BagIn(r, net) /\ r.op = "valuation" /\ r.from = "card"
    /\ net' = Answered(net, r)
    /\ cards' = IF apiCallOutcome(resp).threw \/ resp.kind = "null"
                THEN ValuationFailed(cards, r.arg)
                ELSE UpdateCard(cards, r.arg, ValuationText(apiCallOutcome(resp).data))
    /\ valArrived' = IF ~r.stale /\ r.arg \in DOMAIN valArrived
                     THEN [valArrived EXCEPT ![r.arg] =
                              [nth |-> Arrived(valArrived) + 1,
                               threw |-> apiCallOutcome(resp).threw,
                               total |-> resp.data.total_value_usd]]
                     ELSE valArrived
    /\ UNCHANGED <<store, page, urlId, location, guardRedirect, pc, listeners,
                   userInfo, portfolios, listRegion, stats, renders, creates>>
    /\ UNCHANGED <<detailVars, searchVars, settled, authVars>>

\* submit of #createPortfolioForm: handleCreatePortfolio up to its apiCall
CreatePortfolio ==
    /\ page = "dashboard" /\ listeners /\ creates < MaxCreates
    /\ creates' = creates + 1
    /\ net' = Sent(net, Request(store, "create", Null, "submit", DefaultOptions))
    /\ UNCHANGED <<store, page, urlId, location, guardRedirect, pc, listeners,
                   userInfo, portfolios, listRegion, cards, stats, renders, valArrived>>
    /\ UNCHANGED <<detailVars, searchVars, settled, authVars>>

\* handleCreatePortfolio resumes with the answer to POST /portfolio: on success
\* loadPortfolios up to its apiCall, on failure an alert
CreateResponse(r, resp) ==
    /\ page = "dashboard" /\ BagIn(r, net) /\ r.op = "create"
    /\ net' = IF apiCallOutcome(resp).threw THEN Answered(net, r)
              ELSE Sent(Answered(net, r), Request(store, "list", Null, "submit", DefaultOptions))
    /\ UNCHANGED <<store, page, urlId, location, guardRedirect, pc, listeners,
                   userInfo, dashVars>>
    /\ UNCHANGED <<detailVars, searchVars, settled, authVars>>

\* click on #logoutBtn
DashLogout ==
    /\ page = "dashboard" /\ listeners
    /\ store' = removeTokens(store)
    /\ location' = "index.html"
    /\ UNCHANGED <<page, urlId, guardRedirect, pc, listeners, net, userInfo,
                   dashVars>>
    /\ UNCHANGED <<detailVars, searchVars, settled, authVars>>

\* click on a portfolio card: window.viewPortfolio
viewPortfolio(portfolioId) ==
    /\ page = "dashboard" /\ portfolioId \in DOMAIN cards
    /\ location' = "portfolio.html?id=" \o portfolioId
    /\ UNCHANGED <<store, page, urlId, guardRedirect, pc, listeners, net,
                   userInfo, dashVars>>
    /\ UNCHANGED <<detailVars, searchVars, settled, authVars>>

-----------------------------------------------------------------------------
(* js/portfolio.js : page load *)

NoRegion == [kind |-> "initial", rows |-> <<>>]
ErrorRegion == [kind |-> "error", rows |-> <<>>]
NoDetailStats == [totalValue |-> Null, totalCoins |-> Null, totalProfitLoss |-> Null,
                  className |-> Null]

\* mutant: loadPortfolio's catch sends the browser to the entry view
PortfolioNotFoundEntry == "index.html"

\* where loadPortfolio's catch sends the browser
PortfolioNotFoundTarget == "dashboard.html"

\* the error loadPortfolio lets through to init: none, its catch alerts and
\* redirects
loadPortfolioError(outcome) == Null

\* mutant: the catch of loadHoldings throws the error on
loadHoldingsRethrows(outcome) == IF outcome.threw THEN outcome.message ELSE Null

\* the elements of the detail view that its handlers look up by id after an
\* await and that a document may lack
Elements == {"holdingsContainer"}

\* the TypeError of `document.getElementById('holdingsContainer').innerHTML =`
\* when the lookup returns null
NullContainerMessage == "Cannot set properties of null (setting 'innerHTML')"

\* the assignment to #holdingsContainer's innerHTML, in renderHoldings and in
\* the catch of loadHoldings: the element is dereferenced unguarded, so the
\* content is applied only when the element is there
setHoldingsContainer(region, content) ==
    IF "holdingsContainer" \in missing THEN region ELSE content

\* the error loadHoldings lets through to its caller: none when its catch
\* renders the inline error; the catch's own TypeError when the container it
\* writes to is not in the document (renderHoldings throws the same error
\* into that catch first)
loadHoldingsError(outcome) ==
    IF "holdingsContainer" \in missing THEN NullContainerMessage ELSE Null

RECURSIVE SumProfitLoss(_)
SumProfitLoss(list) ==
    IF list = <<>> THEN 0 ELSE Head(list).profit_loss + SumProfitLoss(Tail(list))

Abs(n) == IF n < 0 THEN 0 - n ELSE n

\* updatePortfolioStats
updatePortfolioStats(valuation) ==
    [totalValue |-> IF valuation.total_value_usd = NoTotal THEN FormatUSD(0)
                    ELSE FormatUSD(valuation.total_value_usd),
     totalCoins |-> ToString(Len(valuation.holdings)),
     totalProfitLoss |-> FormatUSD(Abs(SumProfitLoss(valuation.holdings))),
     className |-> IF SumProfitLoss(valuation.holdings) >= 0
                   THEN "value positive" ELSE "value negative"]

\* mutant: the rows are those of the holdings fetched first
renderHoldingsLocal(valuationHoldings) ==
    IF Len(holdings) = 0 THEN [kind |-> "empty", rows |-> <<>>]
    ELSE [kind |-> "table", rows |-> holdings]

\* renderHoldings: one row per entry of the valuation's holdings (every entry
\* carries the current_price, quantity and holding_value that the row
\* template reads unguarded)
renderHoldings(valuationHoldings) ==
    IF Len(valuationHoldings) = 0 THEN [kind |-> "empty", rows |-> <<>>]
    ELSE [kind |-> "table",
          rows |-> [i \in 1..Len(valuationHoldings) |-> valuationHoldings[i].coin_id]]

\* module level of portfolio.js: the authentication check, the id check, then
\* init() up to its first await (loadUserInfo's apiCall)
DetailLoad ==
    /\ page = "portfolio" /\ pc = "start"
    /\ guardRedirect' = ~isAuthenticated(store)
    /\ location' = IF ~Truthy(urlId) THEN "dashboard.html"
                   ELSE IF ~isAuthenticated(store) THEN "index.html"
                   ELSE location
    /\ net' = Sent(net, Request(store, "me", Null, "init", DefaultOptions))
    /\ pc' = "loadUserInfo"
    /\ UNCHANGED <<store, page, urlId, listeners, userInfo>>
    /\ UNCHANGED <<dashVars, detailVars, searchVars, settled, authVars>>

\* loadUserInfo resumes with the answer to GET /auth/me; init goes on to
\* loadPortfolio up to its apiCall
DetailUserInfoResponse(r, resp) ==
    /\ page = "portfolio" /\ BagIn(r, net) /\ r.op = "me"
    /\ userInfo' = IF ~apiCallOutcome(resp).threw /\ resp.kind = "object"
                   THEN resp.data ELSE userInfo
    /\ IF loadUserInfoError(apiCallOutcome(resp)) # Null
       THEN /\ store' = initCatch(store, location, loadUserInfoError(apiCallOutcome(resp))).store
            /\ location' = initCatch(store, location, loadUserInfoError(apiCallOutcome(resp))).location
            /\ net' = Answered(net, r)
            /\ pc' = "failed"
       ELSE /\ net' = Sent(Answered(net, r), Request(store, "portfolio", urlId, "init", DefaultOptions))
            /\ pc' = "loadPortfolio"
            /\ UNCHANGED <<store, location>>
    /\ UNCHANGED <<page, urlId, guardRedirect, listeners>>
    /\ UNCHANGED <<dashVars, detailVars, searchVars, settled, authVars>>

\* loadPortfolio resumes with the answer to GET /portfolio/{id}; init goes on
\* to loadHoldings up to its first apiCall
DetailPortfolioResponse(r, resp) ==
    /\ page = "portfolio" /\ BagIn(r, net) /\ r.op = "portfolio"
    /\ portfolio' = IF apiCallOutcome(resp).threw THEN portfolio ELSE resp.data
    /\ IF loadPortfolioError(apiCallOutcome(resp)) # Null
       THEN /\ store' = initCatch(store, location, loadPortfolioError(apiCallOutcome(resp))).store
            /\ location' = initCatch(store, location, loadPortfolioError(apiCallOutcome(resp))).location
            /\ net' = Answered(net, r)
            /\ pc' = "failed"
       ELSE /\ location' = IF apiCallOutcome(resp).threw THEN PortfolioNotFoundTarget
                           ELSE location
            /\ net' = Sent(Answered(net, r), Request(store, "holdings", urlId, "init", DefaultOptions))
            /\ pc' = "loadHoldings"
            /\ UNCHANGED store
    /\ UNCHANGED <<page, urlId, guardRedirect, listeners, userInfo>>
    /\ UNCHANGED <<holdings, holdingsRegion, detailStats, adds, insight, missing>>
    /\ UNCHANGED <<dashVars, searchVars, settled, authVars>>

\* what follows `await loadHoldings()` in its caller r.from: in init,
\* setupEventListeners; in handleAddCoin, nothing
AfterLoadHoldings(r, error) ==
    IF error # Null /\ r.from = "init"
    THEN /\ store' = initCatch(store, location, error).store
         /\ location' = initCatch(store, location, error).location
         /\ pc' = "failed"
         /\ UNCHANGED listeners
    ELSE /\ listeners' = IF r.from = "init" THEN TRUE ELSE listeners
         /\ pc' = IF r.from = "init" THEN "ready" ELSE pc
         /\ UNCHANGED <<store, location>>

\* loadHoldings resumes with the answer to GET /portfolio/{id}/holdings: on
\* success it goes on to its second apiCall, on failure its catch ends it
DetailHoldingsResponse(r, resp) ==
    /\ page = "portfolio" /\ BagIn(r, net) /\ r.op = "holdings"
    /\ IF apiCallOutcome(resp).threw \/ resp.kind = "null"
       THEN /\ holdingsRegion' = setHoldingsContainer(holdingsRegion, ErrorRegion)
            /\ net' = Answered(net, r)
            /\ UNCHANGED holdings
            /\ AfterLoadHoldings(r, loadHoldingsError(apiCallOutcome(resp)))
       ELSE /\ holdings' = resp.data
            /\ net' = Sent(Answered(net, r), Request(store, "valuation", urlId, r.from, DefaultOptions))
            /\ UNCHANGED <<holdingsRegion, store, location, pc, listeners>>
    /\ UNCHANGED <<page, urlId, guardRedirect, userInfo, portfolio, detailStats,
                   adds, insight, missing>>
    /\ UNCHANGED <<dashVars, searchVars, settled, authVars>>

\* loadHoldings resumes with the answer to GET /portfolio/{id}/valuation
DetailValuationResponse(r, resp) ==
    /\ page = "portfolio" /\ BagIn(r, net) /\ r.op = "valuation"
    /\ net' = Answered(net, r)
    /\ IF apiCallOutcome(resp).threw \/ resp.kind = "null"
       THEN /\ holdingsRegion' = setHoldingsContainer(holdingsRegion, ErrorRegion)
            /\ UNCHANGED detailStats
       ELSE /\ detailStats' = updatePortfolioStats(resp.data)
            /\ holdingsRegion' = setHoldingsContainer(holdingsRegion,
                                                       renderHoldings(resp.data.holdings))
    /\ AfterLoadHoldings(r, loadHoldingsError(apiCallOutcome(resp)))
    /\ UNCHANGED <<page, urlId, guardRedirect, userInfo, portfolio, holdings,
                   adds, insight, missing>>
    /\ UNCHANGED <<dashVars, searchVars, settled, authVars>>

\* click on #logoutBtn
DetailLogout ==
    /\ page = "portfolio" /\ listeners
    /\ store' = removeTokens(store)
    /\ location' = "index.html"
    /\ UNCHANGED <<page, urlId, guardRedirect, pc, listeners, net, userInfo>>
    /\ UNCHANGED <<dashVars, detailVars, searchVars, settled, authVars>>

-----------------------------------------------------------------------------
(* js/portfolio.js : debounced coin search *)

\* setTimeout(() => searchCoins(query), 300)
DebounceDelay == 300

\* query.length < 2
MinQueryLength == 2

\* what the user may leave in the search field
SearchInputs == {"b", "bt", "btc", " b "}

NoResults == [show |-> FALSE, kind |-> "initial", items |-> <<>>]

\* a timeout id the browser has not handed out to a pending timer
FreshTimer(ts, held) ==
    CHOOSE i \in 1..(Cardinality(ts) + 2) :
        /\ i \notin {t.id : t \in ts} /\ ToString(i) # held
        /\ \A j \in 1..(i - 1) : j \in {t.id : t \in ts} \/ ToString(j) = held

\* mutant: the pending timeout is left in place
clearTimeoutNothing(ts, id) == ts

\* clearTimeout(id)
clearTimeout(ts, id) == {t \in ts : ToString(t.id) # id}

\* mutant: a query of one character is searched too
tooShortNever(query) == Len(query) < 1

\* query.length < 2
tooShort(query) == Len(query) < MinQueryLength

Min(a, b) == IF a < b THEN a ELSE b
Max(a, b) == IF a < b THEN b ELSE a

\* coin searches scheduled or awaiting their answer
Searching(ts, n) ==
    Cardinality(ts) + BagCardinality([r \in {q \in InFlight(n) : q.op = "search"}
                                         |-> CopiesIn(r, n)])

\* input event on #coinSearch with the field holding v
SearchInput(v) ==
    /\ page = "portfolio" /\ listeners
    /\ sinceInput < DebounceDelay => Len(burst) < MaxInputs
    /\ Searching(clearTimeout(timers, searchTimeout), net) < MaxSearches
    /\ inputValue' = v
    /\ burst' = IF sinceInput < DebounceDelay THEN Append(burst, v) ELSE <<v>>
    /\ calls' = IF sinceInput < DebounceDelay THEN calls ELSE <<>>
    /\ sinceInput' = 0
    /\ IF tooShort(trim(v))
       THEN /\ timers' = clearTimeout(timers, searchTimeout)
            /\ results' = [results EXCEPT !.show = FALSE]
            /\ UNCHANGED searchTimeout
       ELSE /\ timers' = clearTimeout(timers, searchTimeout) \cup
                   {[id |-> FreshTimer(clearTimeout(timers, searchTimeout), searchTimeout),
                     query |-> trim(v), left |-> DebounceDelay]}
            /\ searchTimeout' =
                   ToString(FreshTimer(clearTimeout(timers, searchTimeout), searchTimeout))
            /\ UNCHANGED results
    /\ UNCHANGED <<store, page, urlId, location, guardRedirect, pc, listeners, net,
                   userInfo>>
    /\ UNCHANGED <<dashVars, detailVars, settled, authVars>>

\* TickStep time units pass
Tick ==
    /\ page = "portfolio"
    /\ (\E t \in timers : t.left > 0) \/ (burst # <<>> /\ sinceInput < DebounceDelay)
    /\ timers' = {[t EXCEPT !.left = Max(0, t.left - TickStep)] : t \in timers}
    /\ sinceInput' = Min(DebounceDelay, sinceInput + TickStep)
    /\ UNCHANGED <<store, page, urlId, location, guardRedirect, pc, listeners, net,
                   userInfo, inputValue, searchTimeout, results, burst, calls>>
    /\ UNCHANGED <<dashVars, detailVars, settled, authVars>>

\* a timeout whose delay has passed runs its callback: searchCoins(query) up
\* to its apiCall
TimerFire(t) ==
    /\ page = "portfolio" /\ t \in timers /\ t.left = 0
    /\ timers' = timers \ {t}
    /\ net' = Sent(net, Request(store, "search", t.query, "timer", DefaultOptions))
    /\ calls' = Append(calls, [query |-> t.query, waited |-> sinceInput])
    /\ UNCHANGED <<store, page, urlId, location, guardRedirect, pc, listeners,
                   userInfo, inputValue, searchTimeout, results, sinceInput, burst>>
    /\ UNCHANGED <<dashVars, detailVars, settled, authVars>>

\* searchCoins resumes with the answer to GET /coins/search
SearchResponse(r, resp) ==
    /\ page = "portfolio" /\ BagIn(r, net) /\ r.op = "search"
    /\ net' = Answered(net, r)
    /\ results' = IF apiCallOutcome(resp).threw THEN results
                  ELSE [show |-> TRUE,
                        kind |-> IF Len(resp.data) = 0 THEN "none" ELSE "list",
                        items |-> resp.data]
    /\ UNCHANGED <<store, page, urlId, location, guardRedirect, pc, listeners,
                   userInfo, inputValue, timers, searchTimeout, sinceInput,
                   burst, calls>>
    /\ UNCHANGED <<dashVars, detailVars, settled, authVars>>

\* click on a search result: window.selectCoin (a coin's id stands for its
\* name and symbol too)
selectCoin(coinId) ==
    /\ page = "portfolio" /\ results.show
    /\ \E i \in 1..Len(results.items) : results.items[i] = coinId
    /\ inputValue' = coinId
    /\ results' = [results EXCEPT !.show = FALSE]
    /\ UNCHANGED <<store, page, urlId, location, guardRedirect, pc, listeners, net,
                   userInfo, timers, searchTimeout, sinceInput, burst,
                   calls>>
    /\ UNCHANGED <<dashVars, detailVars, settled, authVars>>

-----------------------------------------------------------------------------
(* js/portfolio.js : add coin, AI insights *)

\* mutant: handleAddCoin does not reload after the POST
reloadAfterAddNone(n, s, id) == n

\* handleAddCoin after its apiCall returned: await loadHoldings(), up to the
\* apiCall of loadHoldings
reloadAfterAdd(n, s, id) ==
    Sent(n, Request(s, "holdings", id, "submit", DefaultOptions))

\* submit of #addCoinForm: handleAddCoin up to its apiCall
AddCoin ==
    /\ page = "portfolio" /\ listeners /\ adds < MaxAdds
    /\ adds' = adds + 1
    /\ net' = Sent(net, Request(store, "addcoin", urlId, "submit", DefaultOptions))
    /\ UNCHANGED <<store, page, urlId, location, guardRedirect, pc, listeners,
                   userInfo, portfolio, holdings, holdingsRegion, detailStats, insight, missing>>
    /\ UNCHANGED <<dashVars, searchVars, settled, authVars>>

\* handleAddCoin resumes with the answer to its POST: on success the modal is
\* closed, the search results are hidden and loadHoldings starts; on failure
\* an alert
AddCoinResponse(r, resp) ==
    /\ page = "portfolio" /\ BagIn(r, net) /\ r.op = "addcoin"
    /\ IF apiCallOutcome(resp).threw
       THEN /\ net' = Answered(net, r)
            /\ UNCHANGED results
       ELSE /\ net' = reloadAfterAdd(Answered(net, r), store, urlId)
            /\ results' = [results EXCEPT !.show = FALSE]
    /\ UNCHANGED <<store, page, urlId, location, guardRedirect, pc, listeners,
                   userInfo, inputValue, timers, searchTimeout, sinceInput,
                   burst, calls>>
    /\ UNCHANGED <<dashVars, detailVars, settled, authVars>>

\* the TypeError of renderAIInsights reading a field of null
NullInsightMessage == "Cannot read properties of null (reading 'sentiment')"

\* click on a row's AI Insights button: window.showAIInsights up to its apiCall
showAIInsights(coinId) ==
    /\ page = "portfolio"
    /\ \E i \in 1..Len(holdingsRegion.rows) : holdingsRegion.rows[i] = coinId
    /\ Count(net, "insight", "click") < MaxInsights
    /\ insight' = [open |-> TRUE, name |-> coinId, content |-> "loading"]
    /\ net' = Sent(net, Request(store, "insight", coinId, "click", DefaultOptions))
    /\ UNCHANGED <<store, page, urlId, location, guardRedirect, pc, listeners,
                   userInfo, portfolio, holdings, holdingsRegion, detailStats, adds, missing>>
    /\ UNCHANGED <<dashVars, searchVars, settled, authVars>>

\* mutant: the answer for a coin the modal no longer names is dropped
setInsightsContentIfNamed(ins, coinId, content) ==
    IF ins.name = coinId THEN [ins EXCEPT !.content = content] ELSE ins

\* document.getElementById('aiInsightsContent').innerHTML = ..., in the
\* continuation of showAIInsights(coinId)
setInsightsContent(ins, coinId, content) == [ins EXCEPT !.content = content]

\* showAIInsights resumes with the answer: the insights, or the error text
\* from its catch (apiCall threw, or renderAIInsights did on null)
InsightResponse(r, resp) ==
    /\ page = "portfolio" /\ BagIn(r, net) /\ r.op = "insight"
    /\ net' = Answered(net, r)
    /\ insight' = setInsightsContent(insight, r.arg,
           IF apiCallOutcome(resp).threw
           THEN "Failed to load AI insights: " \o apiCallOutcome(resp).message
           ELSE IF resp.kind = "null"
           THEN "Failed to load AI insights: " \o NullInsightMessage
           ELSE resp.data)
    /\ UNCHANGED <<store, page, urlId, location, guardRedirect, pc, listeners,
                   userInfo, portfolio, holdings, holdingsRegion, detailStats, adds, missing>>
    /\ UNCHANGED <<dashVars, searchVars, settled, authVars>>

\* click on .close-modal-insights
CloseInsights ==
    /\ page = "portfolio" /\ listeners /\ insight.open
    /\ insight' = [insight EXCEPT !.open = FALSE]
    /\ UNCHANGED <<store, page, urlId, location, guardRedirect, pc, listeners, net,
                   userInfo, portfolio, holdings, holdingsRegion, detailStats, adds, missing>>
    /\ UNCHANGED <<dashVars, searchVars, settled, authVars>>

-----------------------------------------------------------------------------
(* js/auth.js : the entry view *)

\* mutant: the calls of the entry view are issued without skipAuth
AuthOptionsWithAuth == [skipAuth |-> FALSE, headers |-> NoHeaders]

\* { method: 'POST', body: ..., skipAuth: true }
AuthOptions == [skipAuth |-> TRUE, headers |-> NoHeaders]

\* a token pair as the login endpoint returns it; Null is a missing field
Tokens(access, refresh) == [access_token |-> access, refresh_token |-> refresh]

\* POST /auth/login answering with one of the given token pairs
LoginResponses(pairs) ==
    { Resp(200, "object", Null, Null, t) : t \in pairs }
        \cup { Resp(200, "null", Null, Null, Tokens(Null, Null)) }
        \cup Failures(Tokens(Null, Null))

\* POST /auth/register
RegisterResponses ==
    { Resp(201, "object", Null, Null, Null) } \cup Failures(Null)

\* what the user may type as the password of the registration form
Passwords == {"secret", "secret12"}

MinPasswordLength == 8

\* showMessage(message, type)
showMessage(message, type) == [text |-> message, type |-> type]

\* the TypeError of the login handler reading a field of null
NullLoginMessage == "Cannot read properties of null (reading 'access_token')"

\* what the login handler catches, if anything: the error of apiCall, or the
\* TypeError of data.access_token on a null body
loginError(resp) ==
    IF apiCallOutcome(resp).threw THEN apiCallOutcome(resp).message
    ELSE IF resp.kind = "null" THEN NullLoginMessage
    ELSE Null

\* mutant: the two tokens are stored under each other's key
loginSucceededSwapped(s, data) == saveToken(s, data.refresh_token, data.access_token)

\* saveToken(data.access_token, data.refresh_token)
loginSucceeded(s, data) == saveToken(s, data.access_token, data.refresh_token)

\* mutant: a failed login logs out
loginFailedClears(s, message) == removeTokens(s)

\* the catch of the login handler: a message, the store as it was
loginFailed(s, message) == s

\* calls awaiting their answer and timeouts pending in the entry view
AuthPending == BagCardinality(net) + redirects + switches

\* click on #showRegister
showRegister ==
    /\ page = "index" /\ form = "login"
    /\ form' = "register" /\ messageEl' = NoMessage
    /\ UNCHANGED <<store, page, urlId, location, guardRedirect, pc, listeners,
                   net, userInfo, redirects, switches>>
    /\ UNCHANGED <<dashVars, detailVars, searchVars, settled>>

\* click on #showLogin
showLogin ==
    /\ page = "index" /\ form = "register"
    /\ form' = "login" /\ messageEl' = NoMessage
    /\ UNCHANGED <<store, page, urlId, location, guardRedirect, pc, listeners,
                   net, userInfo, redirects, switches>>
    /\ UNCHANGED <<dashVars, detailVars, searchVars, settled>>

\* submit of #login: the handler up to its apiCall
LoginSubmit ==
    /\ page = "index" /\ form = "login" /\ AuthPending < MaxAuthPending
    /\ messageEl' = showMessage("Logging in...", "success")
    /\ net' = Sent(net, Request(store, "login", Null, "submit", AuthOptions))
    /\ UNCHANGED <<store, page, urlId, location, guardRedirect, pc, listeners,
                   userInfo, redirects, form, switches>>
    /\ UNCHANGED <<dashVars, detailVars, searchVars, settled>>

\* the login handler resumes with the answer: the tokens are saved and the
\* redirect is scheduled, or its catch shows the error
LoginResponse(r, resp) ==
    /\ page = "index" /\ BagIn(r, net) /\ r.op = "login"
    /\ net' = Answered(net, r)
    /\ IF loginError(resp) # Null
       THEN /\ store' = loginFailed(store, loginError(resp))
            /\ messageEl' = showMessage(
                   FirstTruthy(loginError(resp), Null,
                               "Login failed. Please check your credentials."),
                   "error")
            /\ UNCHANGED redirects
       ELSE /\ store' = loginSucceeded(store, resp.data)
            /\ messageEl' = showMessage("Login successful! Redirecting...", "success")
            /\ redirects' = redirects + 1
    /\ UNCHANGED <<page, urlId, location, guardRedirect, pc, listeners,
                   userInfo, form, switches>>
    /\ UNCHANGED <<dashVars, detailVars, searchVars, settled>>

\* the timeout of a successful login fires
LoginRedirect ==
    /\ page = "index" /\ redirects > 0
    /\ redirects' = redirects - 1
    /\ location' = "dashboard.html"
    /\ UNCHANGED <<store, page, urlId, guardRedirect, pc, listeners, net,
                   userInfo, messageEl, form, switches>>
    /\ UNCHANGED <<dashVars, detailVars, searchVars, settled>>

\* mutant: the handler does not look at the length of the password
RegisterSubmitAnyLength(password) ==
    /\ page = "index" /\ form = "register" /\ AuthPending < MaxAuthPending
    /\ messageEl' = showMessage("Creating account...", "success")
    /\ net' = Sent(net, Request(store, "register", Null, "submit", AuthOptions))
    /\ UNCHANGED <<store, page, urlId, location, guardRedirect, pc, listeners,
                   userInfo, redirects, form, switches>>
    /\ UNCHANGED <<dashVars, detailVars, searchVars, settled>>

\* submit of #register: a short password ends the handler with a message,
\* otherwise the handler runs up to its apiCall
RegisterSubmit(password) ==
    /\ page = "index" /\ form = "register" /\ AuthPending < MaxAuthPending
    /\ IF Len(password) < MinPasswordLength
       THEN /\ messageEl' = showMessage("Password must be at least 8 characters", "error")
            /\ UNCHANGED net
       ELSE /\ messageEl' = showMessage("Creating account...", "success")
            /\ net' = Sent(net, Request(store, "register", Null, "submit", AuthOptions))
    /\ UNCHANGED <<store, page, urlId, location, guardRedirect, pc, listeners,
                   userInfo, redirects, form, switches>>
    /\ UNCHANGED <<dashVars, detailVars, searchVars, settled>>

\* the registration handler resumes with the answer: the switch to the login
\* form is scheduled, or its catch shows the error
RegisterResponse(r, resp) ==
    /\ page = "index" /\ BagIn(r, net) /\ r.op = "register"
    /\ net' = Answered(net, r)
    /\ IF apiCallOutcome(resp).threw
       THEN /\ messageEl' = showMessage(
                   FirstTruthy(apiCallOutcome(resp).message, Null,
                               "Registration failed. Please try again."),
                   "error")
            /\ UNCHANGED switches
       ELSE /\ messageEl' = showMessage("Account created! Please login.", "success")
            /\ switches' = switches + 1
    /\ UNCHANGED <<store, page, urlId, location, guardRedirect, pc, listeners,
                   userInfo, redirects, form>>
    /\ UNCHANGED <<dashVars, detailVars, searchVars, settled>>

\* the timeout of a successful registration fires
RegisterSwitch ==
    /\ page = "index" /\ switches > 0
    /\ switches' = switches - 1
    /\ form' = "login"
    /\ UNCHANGED <<store, page, urlId, location, guardRedirect, pc, listeners,
                   net, userInfo, messageEl, redirects>>
    /\ UNCHANGED <<dashVars, detailVars, searchVars, settled>>

-----------------------------------------------------------------------------
(* The browser: a pending navigation replaces the document *)

IsPrefix(pre, s) == Len(pre) <= Len(s) /\ SubSeq(s, 1, Len(pre)) = pre

DocumentOf(href) ==
    IF href = "index.html" THEN "index"
    ELSE IF href = "dashboard.html" THEN "dashboard" ELSE "portfolio"

IdOf(href) ==
    IF IsPrefix("portfolio.html?id=", href)
    THEN SubSeq(href, Len("portfolio.html?id=") + 1, Len(href)) ELSE Null

\* a document before its script has run
FreshDocument ==
    /\ guardRedirect = FALSE /\ pc = "start" /\ listeners = FALSE
    /\ net = EmptyBag /\ userInfo = NoUser
    /\ portfolios = <<>> /\ listRegion = "initial" /\ cards = NoCards
    /\ stats = NoStats /\ renders = 0 /\ creates = 0 /\ valArrived = NoCards
    /\ portfolio = Null /\ holdings = <<>> /\ holdingsRegion = NoRegion
    /\ detailStats = NoDetailStats /\ adds = 0 /\ insight = NoInsight
    /\ inputValue = "" /\ timers = {} /\ searchTimeout = Null
    /\ results = NoResults /\ sinceInput = DebounceDelay
    /\ burst = <<>> /\ calls = <<>>
    /\ settled = NoneSettled
    /\ messageEl = NoMessage /\ redirects = 0 /\ form = "login" /\ switches = 0

\* the pending navigation happens: the document, its requests and its timers
\* are gone, the next document starts; localStorage stays
Navigate ==
    /\ location # Null
    /\ page' = DocumentOf(location)
    /\ urlId' = IdOf(location)
    /\ location' = Null
    /\ guardRedirect' = FALSE /\ pc' = "start" /\ listeners' = FALSE
    /\ net' = EmptyBag /\ userInfo' = NoUser
    /\ portfolios' = <<>> /\ listRegion' = "initial" /\ cards' = NoCards
    /\ stats' = NoStats /\ renders' = 0 /\ creates' = 0 /\ valArrived' = NoCards
    /\ portfolio' = Null /\ holdings' = <<>> /\ holdingsRegion' = NoRegion
    /\ detailStats' = NoDetailStats /\ adds' = 0 /\ insight' = NoInsight
    /\ inputValue' = "" /\ timers' = {} /\ searchTimeout' = Null
    /\ results' = NoResults /\ sinceInput' = DebounceDelay
    /\ burst' = <<>> /\ calls' = <<>>
    /\ messageEl' = NoMessage /\ redirects' = 0
    /\ form' = "login" /\ switches' = 0
    /\ UNCHANGED <<store, settled, missing>>

-----------------------------------------------------------------------------
(* The protected views: a document opened by the user, then run *)

Stores == { [access_token |-> Null, refresh_token |-> Null],
            [access_token |-> "T1", refresh_token |-> "R1"] }

Init ==
    /\ store \in Stores
    /\ page \in {"index", "dashboard", "portfolio"}
    /\ urlId \in IF page = "portfolio" THEN {Null, "1"} ELSE {Null}
    /\ location = Null
    /\ FreshDocument
    /\ missing = {}

\* what the remote service may answer to request r
ResponsesTo(r) ==
    CASE r.op = "me" -> UserResponses
      [] r.op = "list" -> ListResponses
      [] r.op = "valuation" -> ValuationResponses
      [] r.op = "create" -> CreateResponses
      [] r.op = "portfolio" -> PortfolioResponses
      [] r.op = "holdings" -> HoldingsResponses
      [] r.op = "search" -> SearchResponses
      [] r.op = "addcoin" -> AddResponses
      [] r.op = "insight" -> InsightResponses(r.arg)
      [] r.op = "login" -> LoginResponses({Tokens("T1", "R1")})
      [] r.op = "register" -> RegisterResponses

\* the awaiting code of request r resumes with the answer resp
Delivers(r, resp) ==
    \/ DashUserInfoResponse(r, resp)
    \/ DashPortfoliosResponse(r, resp)
    \/ DashValuationResponse(r, resp)
    \/ CreateResponse(r, resp)
    \/ DetailUserInfoResponse(r, resp)
    \/ DetailPortfolioResponse(r, resp)
    \/ DetailHoldingsResponse(r, resp)
    \/ DetailValuationResponse(r, resp)
    \/ SearchResponse(r, resp)
    \/ AddCoinResponse(r, resp)
    \/ InsightResponse(r, resp)
    \/ LoginResponse(r, resp)
    \/ RegisterResponse(r, resp)

Respond == \E r \in InFlight(net) : \E resp \in ResponsesTo(r) : Delivers(r, resp)

\* the detail document before any input, add-coin submit or insight click
Untouched == burst = <<>> /\ adds = 0 /\ insight = NoInsight

Next ==
    \/ DashboardLoad
    \/ DetailLoad
    \/ Respond
    \/ CreatePortfolio
    \/ DashLogout
    \/ DetailLogout
    \/ \E id \in DOMAIN cards : viewPortfolio(id)
    \* one of search, add coin and AI insight per document here, and one input
    \* event; SpecSearch has the bursts of input
    \/ \E v \in SearchInputs : SearchInput(v) /\ Untouched
    \/ Tick
    \/ \E t \in timers : TimerFire(t)
    \/ \E c \in {"bitcoin"} : selectCoin(c)
    \/ AddCoin /\ Untouched
    \/ \E c \in {"bitcoin", "ethereum"} : showAIInsights(c) /\ Untouched
    \/ CloseInsights
    \/ showRegister
    \/ showLogin
    \/ LoginSubmit
    \/ LoginRedirect
    \/ \E password \in Passwords : RegisterSubmit(password)
    \/ RegisterSwitch
    \/ Navigate

Spec == Init /\ [][Next]_vars

-----------------------------------------------------------------------------
(* Logging in: the entry view, then the dashboard it leads to *)

\* token pairs the login endpoint hands out here: a fresh pair, and an access
\* token without a refresh token
AuthPairs == {Tokens("T1", "R1"), Tokens("T2", Null)}

\* what localStorage holds when the entry view is opened: nothing, or the
\* tokens of an earlier session
AuthStores == { [access_token |-> Null, refresh_token |-> Null],
                [access_token |-> "T0", refresh_token |-> "R0"] }

InitAuth ==
    /\ store \in AuthStores
    /\ page = "index" /\ urlId = Null /\ location = Null
    /\ FreshDocument
    /\ missing = {}

NextAuth ==
    \/ showRegister
    \/ showLogin
    \/ LoginSubmit
    \/ \E r \in InFlight(net) : \E resp \in LoginResponses(AuthPairs) : LoginResponse(r, resp)
    \/ LoginRedirect
    \/ \E password \in Passwords : RegisterSubmit(password)
    \/ RegisterSwitch
    \/ DashboardLoad
    \/ Respond
    \/ DashLogout
    \/ Navigate

SpecAuth == InitAuth /\ [][NextAuth]_vars

-----------------------------------------------------------------------------
(* The Gateway by itself: any caller issues apiCall, the remote service answers *)

\* what localStorage may hold under the two keys: nothing, empty strings, tokens
ApiStores == { [access_token |-> Null, refresh_token |-> Null],
               [access_token |-> "", refresh_token |-> ""],
               [access_token |-> "T1", refresh_token |-> "R1"] }

\* the options a caller may pass
ApiOptions ==
    [skipAuth : BOOLEAN,
     headers : [ContentType : {Null, "text/plain"},
                Authorization : {Null, "Basic abc"}]]

\* the answers to a call: any status, any body
ApiResponses ==
    { Resp(st, "object", e, d, Null) :
          st \in {200, 401, 404},
          e \in {Null, "", "Bad token"},
          d \in {Null, "", "Could not validate credentials", "401 Unauthorized"} }
        \cup { Resp(st, k, Null, Null, Null) : st \in {200, 401, 404}, k \in {"null", "text"} }
        \cup { Resp(0, "network", Null, Null, Null) }

\* apiCall(endpoint, options) up to its await on fetch
ApiCall(options) ==
    /\ page = "gateway"
    /\ BagCardinality(net) < MaxApiInFlight
    /\ net' = Sent(net, Request(store, "any", Null, "caller", options))
    /\ UNCHANGED <<store, page, urlId, location, guardRedirect, pc, listeners, userInfo>>
    /\ UNCHANGED <<dashVars, detailVars, searchVars, settled, authVars>>

\* apiCall resumes with the answer and returns or throws
ApiSettle(r, resp) ==
    /\ page = "gateway" /\ BagIn(r, net)
    /\ net' = Answered(net, r)
    /\ settled' = [status |-> resp.status, kind |-> resp.kind, error |-> resp.error,
                   detail |-> resp.detail, threw |-> apiCallOutcome(resp).threw,
                   message |-> apiCallOutcome(resp).message,
                   logged |-> apiCallLogged(resp)]
    /\ UNCHANGED <<store, page, urlId, location, guardRedirect, pc, listeners, userInfo>>
    /\ UNCHANGED <<dashVars, detailVars, searchVars, authVars>>

\* a caller stores the tokens of a login
ApiSaveToken(token, refreshToken) ==
    /\ page = "gateway"
    /\ store' = saveToken(store, token, refreshToken)
    /\ store' # store
    /\ UNCHANGED <<page, urlId, location, guardRedirect, pc, listeners, net, userInfo>>
    /\ UNCHANGED <<dashVars, detailVars, searchVars, settled, authVars>>

\* a caller removes the tokens
ApiRemoveTokens ==
    /\ page = "gateway"
    /\ store' = removeTokens(store)
    /\ store' # store
    /\ UNCHANGED <<page, urlId, location, guardRedirect, pc, listeners, net, userInfo>>
    /\ UNCHANGED <<dashVars, detailVars, searchVars, settled, authVars>>

InitApi ==
    /\ store \in ApiStores
    /\ page = "gateway" /\ urlId = Null /\ location = Null
    /\ FreshDocument
    /\ missing = {}

NextApi ==
    \/ \E options \in ApiOptions : ApiCall(options)
    \/ \E r \in InFlight(net) : \E resp \in ApiResponses : ApiSettle(r, resp)
    \/ \E t \in {"T1", ""} : \E rt \in {"R1", Null} : ApiSaveToken(t, rt)
    \/ ApiRemoveTokens

SpecApi == InitApi /\ [][NextApi]_vars

-----------------------------------------------------------------------------
(* The coin search of a detail view whose init has completed *)

\* the detail view of portfolio 1 after init: user and portfolio loaded, no
\* holdings yet, listeners attached
InitSearch ==
    /\ store = [access_token |-> "T1", refresh_token |-> "R1"]
    /\ page = "portfolio" /\ urlId = "1" /\ location = Null
    /\ guardRedirect = FALSE /\ pc = "ready" /\ listeners = TRUE
    /\ net = EmptyBag
    /\ userInfo = [username |-> "ann", email |-> "a@x.com"]
    /\ portfolios = <<>> /\ listRegion = "initial" /\ cards = NoCards
    /\ stats = NoStats /\ renders = 0 /\ creates = 0 /\ valArrived = NoCards
    /\ portfolio = "Main" /\ holdings = <<>>
    /\ holdingsRegion = renderHoldings(<<>>)
    /\ detailStats = updatePortfolioStats(NoValuation)
    /\ adds = 0 /\ insight = NoInsight /\ missing = {}
    /\ inputValue = "" /\ timers = {} /\ searchTimeout = Null
    /\ results = NoResults /\ sinceInput = DebounceDelay
    /\ burst = <<>> /\ calls = <<>>
    /\ settled = NoneSettled
    /\ messageEl = NoMessage /\ redirects = 0 /\ form = "login" /\ switches = 0

NextSearch ==
    \/ \E v \in SearchInputs : SearchInput(v)
    \/ Tick
    \/ \E t \in timers : TimerFire(t)
    \/ \E r \in InFlight(net) : \E resp \in SearchResponses : SearchResponse(r, resp)
    \/ \E c \in {"bitcoin"} : selectCoin(c)

SpecSearch == InitSearch /\ [][NextSearch]_vars

-----------------------------------------------------------------------------
(* The AI insights of a detail view whose init has completed *)

\* the detail view of portfolio 1 after init, its table showing two coins
InitInsight ==
    /\ store = [access_token |-> "T1", refresh_token |-> "R1"]
    /\ page = "portfolio" /\ urlId = "1" /\ location = Null
    /\ guardRedirect = FALSE /\ pc = "ready" /\ listeners = TRUE
    /\ net = EmptyBag
    /\ userInfo = [username |-> "ann", email |-> "a@x.com"]
    /\ portfolios = <<>> /\ listRegion = "initial" /\ cards = NoCards
    /\ stats = NoStats /\ renders = 0 /\ creates = 0 /\ valArrived = NoCards
    /\ portfolio = "Main" /\ holdings = <<"bitcoin", "ethereum">>
    /\ holdingsRegion = renderHoldings(<<Btc, Eth>>)
    /\ detailStats = updatePortfolioStats([total_value_usd |-> 123450, holdings |-> <<Btc, Eth>>])
    /\ adds = 0 /\ insight = NoInsight /\ missing = {}
    /\ inputValue = "" /\ timers = {} /\ searchTimeout = Null
    /\ results = NoResults /\ sinceInput = DebounceDelay
    /\ burst = <<>> /\ calls = <<>>
    /\ settled = NoneSettled
    /\ messageEl = NoMessage /\ redirects = 0 /\ form = "login" /\ switches = 0

NextInsight ==
    \/ \E c \in {"bitcoin", "ethereum"} : showAIInsights(c)
    \/ \E r \in InFlight(net) : \E resp \in ResponsesTo(r) : InsightResponse(r, resp)
    \/ CloseInsights
    \/ DetailLogout
    \/ Navigate

SpecInsight == InitInsight /\ [][NextInsight]_vars

-----------------------------------------------------------------------------
(* The dashboard of a signed-in user, every call answered in the end *)

InitLive ==
    /\ store = [access_token |-> "T1", refresh_token |-> "R1"]
    /\ page = "dashboard" /\ urlId = Null /\ location = Null
    /\ FreshDocument
    /\ missing = {}

\* the document stays open: the script runs, the user may submit the create
\* form, the remote service answers
NextLive ==
    \/ DashboardLoad
    \/ Respond
    \/ CreatePortfolio

\* the module-level script of a loaded document runs (DashboardLoad), and a
\* call in flight is answered in the end, with a response or a network error
\* (Respond); nothing makes the user submit the create form
SpecLive ==
    InitLive /\ [][NextLive]_vars /\ WF_vars(DashboardLoad) /\ WF_vars(Respond)

-----------------------------------------------------------------------------
(* The detail view opened in a document that may lack #holdingsContainer *)

\* portfolio.html?id=1 opened by a signed-in user; the document holds every
\* element of Elements or lacks some
InitDom ==
    /\ store = [access_token |-> "T1", refresh_token |-> "R1"]
    /\ page = "portfolio" /\ urlId = "1" /\ location = Null
    /\ FreshDocument
    /\ missing \in SUBSET Elements

NextDom ==
    \/ DetailLoad
    \/ Respond
    \/ AddCoin
    \/ DetailLogout

SpecDom == InitDom /\ [][NextDom]_vars

-----------------------------------------------------------------------------
(* Properties of the Gateway (SpecApi) *)

\* C3, as first stated: a call made with a token stored and skipAuth unset
\* carries Authorization: Bearer <token>; a call with skipAuth set carries no
\* Authorization header; a call made with no token stored carries none either.
C3_NeverAuthorization ==
    \A r \in InFlight(net) :
        /\ Truthy(r.token) /\ ~r.options.skipAuth
               => r.headers.Authorization = "Bearer " \o r.token
        /\ r.options.skipAuth => r.headers.Authorization = Null
        /\ ~Truthy(r.token) => r.headers.Authorization = Null

\* C3: a call made with a token stored and skipAuth unset carries
\* Authorization: Bearer <token>; a call with skipAuth set, or made with no
\* token stored, is issued with no header from the store: its Authorization
\* header is the one the caller passed in options.headers, or none.
C3_AuthorizationFromStore ==
    \A r \in InFlight(net) :
        /\ Truthy(r.token) /\ ~r.options.skipAuth
               => r.headers.Authorization = "Bearer " \o r.token
        /\ r.options.skipAuth
               => r.headers.Authorization = r.options.headers.Authorization
        /\ ~Truthy(r.token)
               => r.headers.Authorization = r.options.headers.Authorization

\* a call with skipAuth set and a token stored is in flight, carrying the
\* Authorization header its caller passed
C3_SkipAuthCallerHeader ==
    \E r \in InFlight(net) :
        /\ r.options.skipAuth /\ r.token = "T1"
        /\ r.options.headers.Authorization = "Basic abc"
        /\ r.headers.Authorization = "Basic abc"

\* the call last answered got a response that is not 2xx
SettledNotOk == settled.kind \in {"object", "null", "text"} /\ ~ResponseOk(settled.status)

C5_StatusInMessage ==
    settled.status = 401 => settled.threw /\ includes(settled.message, "401")

-----------------------------------------------------------------------------
(* Properties of the protected views (Spec) *)

\* the error apiCall throws for resp carries the marker init's catch looks for
MarkedFailure(resp) ==
    apiCallOutcome(resp).threw /\ includes(apiCallOutcome(resp).message, "401")

\* a failure that is no authentication failure: any status but 401, or no
\* answer at all
NonAuthFailure(resp) == apiCallOutcome(resp).threw /\ resp.status # 401

\* C1: whenever a Gateway call awaited by init fails with a message that
\* contains "401", that step clears the Credential Store and sets the
\* redirect to the entry view.
C1_MarkerLogsOut ==
    [][\A r \in InFlight(net) : \A resp \in ResponsesTo(r) :
           r.from = "init" /\ MarkedFailure(resp) /\ Delivers(r, resp)
               => store' = removeTokens(store) /\ location' = "index.html"]_vars

\* C2: a protected view loaded with no access token stored has issued no
\* Gateway call, in any state after its guard ran.
C2_GuardAbortsInit == guardRedirect => net = EmptyBag

\* C6: a step that resumes a Gateway call with a failure other than a 401
\* leaves the Credential Store as it is and does not set the redirect to the
\* entry view; the store is cleared, and the redirect to the entry view is set
\* after the load-time guard, only by a logout click or by a failure whose
\* message carries the "401" marker.
C6_OnlyMarkerOrLogout ==
    [][/\ \A r \in InFlight(net) : \A resp \in ResponsesTo(r) :
              NonAuthFailure(resp) /\ Delivers(r, resp)
                  => store' = store /\ (location' = "index.html" => location = "index.html")
       /\ (\/ store' # store /\ store' = removeTokens(store)
           \/ location' = "index.html" /\ location # "index.html")
              => \/ DashLogout \/ DetailLogout
                 \/ DashboardLoad \/ DetailLoad
                 \/ \E r \in InFlight(net) : \E resp \in ResponsesTo(r) :
                        MarkedFailure(resp) /\ Delivers(r, resp)]_vars

\* GET /portfolio/1 failed in an authenticated detail view: the tokens are
\* still stored and the browser is sent to the dashboard, not the entry view
C6_NotFoundKeepsSession ==
    /\ page = "portfolio" /\ urlId = "1" /\ pc = "ready"
    /\ portfolio = Null /\ location = "dashboard.html"
    /\ isAuthenticated(store)

\* the text a card shows for the answer its valuation fetch got
CardText(a) ==
    IF a.nth = 0 THEN "Loading..."
    ELSE IF a.threw \/ a.total = NoTotal THEN "$0.00"
    ELSE FormatUSD(a.total)

\* C7: after one render of the cards, every card shows the text of the answer
\* its own valuation fetch got, whatever the order in which the answers came.
C7_OrderIndependent ==
    page = "dashboard" /\ renders = 1
        => \A id \in DOMAIN cards : cards[id] = CardText(valArrived[id])

\* two cards, rendered once, answered in reversed order: a failure for
\* portfolio 2 first, then a value for portfolio 1
C7_ReversedArrival ==
    /\ page = "dashboard" /\ renders = 1 /\ DOMAIN cards = {"1", "2"}
    /\ valArrived["2"].nth = 1 /\ valArrived["2"].threw
    /\ valArrived["1"].nth = 2 /\ ~valArrived["1"].threw
    /\ cards["1"] = "$1,234.50" /\ cards["2"] = "$0.00"

\* C8: when the valuation fetch of portfolio X fails, X's card (if still
\* there) shows "$0.00", every other card keeps its text, and nothing else
\* happens: no inline error, no change of the store, no redirect.
C8_FailureStaysLocal ==
    [][\A r \in InFlight(net) : \A resp \in ValuationResponses :
           r.op = "valuation" /\ apiCallOutcome(resp).threw /\ DashValuationResponse(r, resp)
               => /\ DOMAIN cards' = DOMAIN cards
                  /\ \A id \in DOMAIN cards :
                         cards'[id] = IF id = r.arg THEN "$0.00" ELSE cards[id]
                  /\ listRegion' = listRegion /\ stats' = stats
                  /\ store' = store /\ location' = location]_vars

\* portfolio 1's value arrived, then portfolio 2's fetch failed: card 1 keeps
\* its value, card 2 shows "$0.00", the list is shown, the session stands
C8_FailedAfterValue ==
    /\ page = "dashboard" /\ renders = 1 /\ DOMAIN cards = {"1", "2"}
    /\ valArrived["1"].nth = 1 /\ ~valArrived["1"].threw
    /\ valArrived["2"].nth = 2 /\ valArrived["2"].threw
    /\ cards["1"] = "$1,234.50" /\ cards["2"] = "$0.00"
    /\ listRegion = "cards" /\ isAuthenticated(store) /\ location = Null

-----------------------------------------------------------------------------
(* Properties of the debounced coin search (SpecSearch) *)

\* the field value of the latest input event
LastInput == burst[Len(burst)]

\* C9: at most one search is scheduled at any time, and it is the one of the
\* latest input event, that event's timeout, due 300 time units after it;
\* a search is called only for the trimmed value of the latest input event,
\* once 300 time units passed after it with no further input, and once only.
C9_Debounce ==
    /\ Cardinality(timers) <= 1
    /\ \A t \in timers :
           /\ burst # <<>> /\ t.query = trim(LastInput)
           /\ ToString(t.id) = searchTimeout
           /\ t.left = DebounceDelay - sinceInput
    /\ Len(calls) <= 1
    /\ \A i \in 1..Len(calls) :
           /\ calls[i].query = trim(LastInput)
           /\ calls[i].waited >= DebounceDelay
           /\ sinceInput >= DebounceDelay

\* "b", "bt", "btc" were typed within the window, the window passed, and one
\* search has been called, for "btc"
C9_TypedBtc ==
    /\ burst = <<"b", "bt", "btc">>
    /\ calls = <<[query |-> "btc", waited |-> DebounceDelay]>>
    /\ timers = {}

\* the step is an input event that leaves a trimmed value below 2 characters
ShortInput ==
    \E v \in SearchInputs : Len(trim(v)) < MinQueryLength /\ SearchInput(v)

\* C10: an input event whose trimmed value is below 2 characters hides the
\* results in that step and leaves no search scheduled; while it is the
\* latest input no search is scheduled and none has been called since the
\* burst began; no search is ever called with a query below 2 characters.
C10_ShortInput ==
    /\ [](/\ burst # <<>> /\ Len(trim(LastInput)) < MinQueryLength
              => timers = {} /\ calls = <<>>
          /\ \A i \in 1..Len(calls) : Len(calls[i].query) >= MinQueryLength)
    /\ [][ShortInput => ~results'.show /\ timers' = {}]_vars

\* "bt" was typed, then deleted to "b" within the window, and the window
\* passed: nothing is scheduled, nothing was called, the results are hidden
C10_DeletedToB ==
    /\ burst = <<"bt", "b">> /\ sinceInput = DebounceDelay
    /\ timers = {} /\ calls = <<>> /\ net = EmptyBag
    /\ ~results.show

-----------------------------------------------------------------------------
(* Properties of the Credential Store (SpecApi) *)

\* C18: from any store, saveToken(access, refresh) leaves `access` as the
\* stored access token; the stored refresh token is `refresh` if that is
\* truthy, and is what it was before (a token or none) if `refresh` is falsy.
C18_SaveTokenWrites ==
    \A access \in {"T1", "T2", ""} : \A refresh \in {"R1", "R2", "", Null} :
        /\ saveToken(store, access, refresh)[TOKEN_KEY] = access
        /\ saveToken(store, access, refresh)[REFRESH_TOKEN_KEY] =
               IF refresh \in {"", Null} THEN store[REFRESH_TOKEN_KEY] ELSE refresh

\* saveToken("", null) ran on a store that held T1 and R1: the access token
\* is overwritten, the refresh token is still R1
C18_RefreshKept ==
    /\ page = "gateway"
    /\ store = [access_token |-> "", refresh_token |-> "R1"]

\* C19: from any store, removeTokens leaves neither token, isAuthenticated()
\* is false after it, and removeTokens on the store it leaves changes nothing.
C19_RemoveTokensClears ==
    /\ removeTokens(store) = [access_token |-> Null, refresh_token |-> Null]
    /\ ~isAuthenticated(removeTokens(store))
    /\ removeTokens(removeTokens(store)) = removeTokens(store)

\* the tokens were removed while a call made with T1 was in flight
C19_RemovedAfterCall ==
    /\ page = "gateway"
    /\ store = [access_token |-> Null, refresh_token |-> Null]
    /\ \E r \in InFlight(net) : r.token = "T1"

-----------------------------------------------------------------------------
(* Properties of the Dashboard (Spec) *)

\* C12: once a portfolio list has been fetched, the stats show the number of
\* portfolios of the list and the sum of their holdings_count; they are set
\* when the first valuation fetch is issued, and no valuation response
\* changes them.
C12_StatsFromList ==
    /\ [](page = "dashboard" /\ (renders > 0 \/ Requests(net, "valuation", "card") # {})
              => /\ stats.portfolioCount = ToString(Len(portfolios))
                 /\ stats.coinCount = ToString(SumHoldings(portfolios)))
    /\ [][\A r \in InFlight(net) : \A resp \in ValuationResponses :
              r.op = "valuation" /\ DashValuationResponse(r, resp) => stats' = stats]_vars

\* two portfolios with 3 and 0 holdings were listed; one valuation arrived,
\* the other failed; the stats show 2 portfolios and 3 coins
C12_TwoPortfoliosThreeCoins ==
    /\ page = "dashboard" /\ portfolios = <<Main, Alt>>
    /\ stats.portfolioCount = "2" /\ stats.coinCount = "3"
    /\ valArrived["1"].nth > 0 /\ ~valArrived["1"].threw
    /\ valArrived["2"].nth > 0 /\ valArrived["2"].threw

\* C13: in the Dashboard's init the user-info fetch is issued first; the
\* portfolio-list fetch is not in flight while init awaits the user info, and
\* it is issued by the step that resumes init with the answer to the
\* user-info fetch, whatever that answer is.
C13_UserInfoThenList ==
    /\ [](page = "dashboard" =>
              /\ pc = "loadUserInfo" => Count(net, "me", "init") = 1
                                         /\ Count(net, "list", "init") = 0
              /\ Count(net, "list", "init") > 0 => pc = "loadPortfolios"
                                                    /\ Count(net, "me", "init") = 0)
    /\ [][\A r \in InFlight(net) : \A resp \in UserResponses :
              r.op = "me" /\ DashUserInfoResponse(r, resp)
                  => Count(net', "list", "init") = 1 /\ pc' = "loadPortfolios"]_vars

\* the user-info fetch failed in an authenticated Dashboard, and the
\* portfolio-list fetch is in flight
C13_ListAfterFailedUserInfo ==
    /\ page = "dashboard" /\ pc = "loadPortfolios" /\ isAuthenticated(store)
    /\ userInfo = NoUser /\ Count(net, "list", "init") = 1

\* C14: when the portfolio-list fetch fails, the list region shows the inline
\* error, no request is issued, and the stats and the held portfolio list
\* stay as they were.
C14_ListFailureStops ==
    [][\A r \in InFlight(net) : \A resp \in ListResponses :
           r.op = "list" /\ apiCallOutcome(resp).threw /\ DashPortfoliosResponse(r, resp)
               => /\ listRegion' = "error"
                  /\ net' = Answered(net, r)
                  /\ stats' = stats /\ portfolios' = portfolios]_vars

\* the reload after a created portfolio failed: the inline error is shown,
\* the list of one portfolio and its stats are still held
C14_ReloadFailed ==
    /\ page = "dashboard" /\ listRegion = "error" /\ creates = 1
    /\ portfolios = <<Main>> /\ stats.portfolioCount = "1"
    /\ Count(net, "list", "submit") = 0 /\ Count(net, "create", "submit") = 0

\* C15: a submit of the create form issues one POST.  When the POST succeeds,
\* one portfolio-list fetch is issued, and its answer sets the held list,
\* the stats and the cards anew and issues one valuation fetch per portfolio
\* of the new list.  When the POST fails, nothing is issued and the list,
\* stats and cards stay as they are.
C15_CreateReloads ==
    [][/\ CreatePortfolio
              => /\ Count(net', "create", "submit") = Count(net, "create", "submit") + 1
                 /\ BagCardinality(net') = BagCardinality(net) + 1
       /\ \A r \in InFlight(net) : \A resp \in CreateResponses :
              r.op = "create" /\ CreateResponse(r, resp)
                  => /\ Count(net', "list", "submit") = Count(net, "list", "submit")
                            + (IF apiCallOutcome(resp).threw THEN 0 ELSE 1)
                     /\ BagCardinality(net') = BagCardinality(net)
                            - (IF apiCallOutcome(resp).threw THEN 1 ELSE 0)
                     /\ portfolios' = portfolios /\ stats' = stats
                     /\ cards' = cards /\ listRegion' = listRegion
       /\ \A r \in InFlight(net) : \A resp \in ListResponses :
              (/\ r.op = "list" /\ r.from = "submit" /\ ~apiCallOutcome(resp).threw
               /\ DashPortfoliosResponse(r, resp))
                  => /\ portfolios' = resp.data
                     /\ stats'.portfolioCount = ToString(Len(resp.data))
                     /\ stats'.coinCount = ToString(SumHoldings(resp.data))
                     /\ cards' = [id \in IdsOf(resp.data) |-> "Loading..."]
                     /\ \A id \in IdsOf(resp.data) :
                            Cardinality({q \in Requests(net', "valuation", "card") :
                                             q.arg = id /\ ~q.stale}) = 1
                     /\ \A q \in Requests(net', "valuation", "card") :
                            ~q.stale => q.arg \in IdsOf(resp.data) /\ CopiesIn(q, net') = 1
       ]_vars

\* after a created portfolio the list of two was fetched and rendered a
\* second time; both valuation fetches of the new cards are in flight
C15_ReloadedTwoCards ==
    /\ page = "dashboard" /\ creates = 1 /\ renders = 2
    /\ portfolios = <<Main, Alt>> /\ DOMAIN cards = {"1", "2"}
    /\ \A id \in {"1", "2"} : cards[id] = "Loading..."
    /\ Cardinality({q \in Requests(net, "valuation", "card") : ~q.stale}) = 2

-----------------------------------------------------------------------------
(* Properties of Portfolio Detail (Spec) *)

\* the coin ids of a valuation's holdings, in order
CoinIds(valuationHoldings) ==
    [i \in 1..Len(valuationHoldings) |-> valuationHoldings[i].coin_id]

\* C17: when the valuation fetch that follows a successful holdings fetch
\* succeeds, the rows shown are the holdings of the valuation response and
\* the coin count shown is their number, whatever the holdings fetch brought.
C17_RowsFromValuation ==
    [][\A r \in InFlight(net) : \A resp \in ValuationResponses :
           (/\ r.op = "valuation" /\ ~apiCallOutcome(resp).threw /\ resp.kind = "object"
            /\ DetailValuationResponse(r, resp))
               => /\ holdingsRegion'.rows = CoinIds(resp.data.holdings)
                  /\ holdingsRegion'.kind =
                         IF resp.data.holdings = <<>> THEN "empty" ELSE "table"
                  /\ detailStats'.totalCoins = ToString(Len(resp.data.holdings))]_vars

\* the holdings fetch brought bitcoin and ethereum, the valuation only
\* bitcoin: one row and a coin count of 1 are shown
C17_ValuationWins ==
    /\ page = "portfolio" /\ holdings = <<"bitcoin", "ethereum">>
    /\ holdingsRegion = [kind |-> "table", rows |-> <<"bitcoin">>]
    /\ detailStats.totalCoins = "1"

-----------------------------------------------------------------------------
(* C16 *)

\* C16: an add-coin submit issues one POST and nothing else. When the POST
\* fails nothing is fetched and the rows, the stats and the held holdings
\* stay. When it succeeds one holdings fetch is issued and the held holdings
\* stay as they are; the answer to that fetch replaces them and issues one
\* valuation fetch.
C16_AddReloads ==
    /\ [][AddCoin => /\ Count(net', "addcoin", "submit") = Count(net, "addcoin", "submit") + 1
                     /\ BagCardinality(net') = BagCardinality(net) + 1
                     /\ UNCHANGED <<holdings, holdingsRegion, detailStats>>]_vars
    /\ [][\A r \in InFlight(net) : \A resp \in AddResponses :
             (r.op = "addcoin" /\ AddCoinResponse(r, resp))
                 => /\ UNCHANGED <<holdings, holdingsRegion, detailStats>>
                    /\ IF apiCallOutcome(resp).threw
                       THEN net' = Answered(net, r)
                       ELSE /\ Count(net', "holdings", "submit")
                                   = Count(net, "holdings", "submit") + 1
                            /\ BagCardinality(net') = BagCardinality(net)]_vars
    /\ [][\A r \in InFlight(net) : \A resp \in HoldingsResponses :
             (/\ r.op = "holdings" /\ r.from = "submit"
              /\ ~apiCallOutcome(resp).threw /\ resp.kind = "object"
              /\ DetailHoldingsResponse(r, resp))
                 => /\ holdings' = resp.data
                    /\ Count(net', "valuation", "submit")
                           = Count(net, "valuation", "submit") + 1
                    /\ BagCardinality(net') = BagCardinality(net)]_vars

\* a successful add under way: its holdings fetch brought two coins, its
\* valuation fetch is in flight, the table still shows the one row it had
C16_AddedAndReloading ==
    /\ page = "portfolio" /\ adds = 1
    /\ Count(net, "valuation", "submit") = 1
    /\ holdings = <<"bitcoin", "ethereum">>
    /\ holdingsRegion = [kind |-> "table", rows |-> <<"bitcoin">>]

-----------------------------------------------------------------------------
(* C11 *)

\* a login call answered with tokens, its handler running to its end
LoginSucceeds(r, resp) ==
    r.op = "login" /\ loginError(resp) = Null /\ LoginResponse(r, resp)

\* C11: a login that succeeds with access token T leaves T as the stored
\* token, and the store then reports an authenticated session; the stored
\* token changes only by being cleared or by a login that succeeds; and every
\* apiCall without skipAuth issued while a token is stored carries "Bearer "
\* followed by that token.
C11_BearerAfterLogin ==
    /\ [][\A r \in InFlight(net) : \A resp \in LoginResponses(AuthPairs) :
             LoginSucceeds(r, resp)
                 => /\ getToken(store') = resp.data.access_token
                    /\ isAuthenticated(store')]_vars
    /\ [][getToken(store') # getToken(store)
             => \/ getToken(store') = Null
                \/ \E r \in InFlight(net) : \E resp \in LoginResponses(AuthPairs) :
                       LoginSucceeds(r, resp)]_vars
    /\ [][\A r \in InFlight(net') :
             (/\ CopiesIn(r, net') > CopiesIn(r, net)
              /\ ~r.options.skipAuth /\ isAuthenticated(store))
                 => r.headers.Authorization = "Bearer " \o getToken(store)]_vars

\* a login over the tokens of an earlier session brought T2 and no refresh
\* token: the dashboard's list fetch carries Bearer T2
C11_ListFetchBearsT2 ==
    /\ page = "dashboard"
    /\ store = [access_token |-> "T2", refresh_token |-> "R0"]
    /\ \E r \in InFlight(net) :
           r.op = "list" /\ r.headers.Authorization = "Bearer T2"

-----------------------------------------------------------------------------
(* C20 *)

\* init's catch runs on a failure whose message carries the marker
InitAuthFailure(r, resp) ==
    r.from = "init" /\ MarkedFailure(resp) /\ Delivers(r, resp)

\* C20: a step changes a stored token only if it is a login that succeeds,
\* a logout click, or init's catch running on an authentication failure; the
\* answer to any other call (registration, a failed login, user info, list,
\* valuation, holdings, search, AI insight, create portfolio, add coin),
\* handled to the end of its handler, leaves the store as it is.
C20_StoreWriters ==
    [][/\ store' # store
           => \/ DashLogout \/ DetailLogout
              \/ \E r \in InFlight(net) : \E resp \in ResponsesTo(r) :
                     LoginSucceeds(r, resp) \/ InitAuthFailure(r, resp)
       /\ \A r \in InFlight(net) : \A resp \in ResponsesTo(r) :
              (/\ Delivers(r, resp)
               /\ ~(r.op = "login" /\ loginError(resp) = Null)
               /\ ~(r.from = "init" /\ MarkedFailure(resp)))
                  => store' = store]_vars

\* a login was refused in an entry view opened over a stored session: the
\* error is shown, both tokens are still stored
C20_RefusedLoginKeepsTokens ==
    /\ page = "index" /\ net = EmptyBag
    /\ messageEl = showMessage("401 Unauthorized", "error")
    /\ store = [access_token |-> "T1", refresh_token |-> "R1"]

-----------------------------------------------------------------------------
(* C21 *)

\* a response that is not 2xx, or no response at all
Failed(resp) == resp.kind = "network" \/ ~ResponseOk(resp.status)

\* C21: a call puts exactly one request in flight; the answer to it takes
\* that request away and puts no other in flight; and when the answer is a
\* failure the call throws, the message thrown being the one it logged.
C21_NoRetryNoRecovery ==
    /\ [][\A options \in ApiOptions :
             ApiCall(options) => BagCardinality(net') = BagCardinality(net) + 1]_vars
    /\ [][\A r \in InFlight(net) : \A resp \in ApiResponses :
             ApiSettle(r, resp)
                 => /\ net' = Answered(net, r)
                    /\ BagCardinality(net') = BagCardinality(net) - 1
                    /\ Failed(resp) => /\ settled'.threw
                                       /\ settled'.logged # Null
                                       /\ settled'.message = settled'.logged]_vars

\* a 404 naming its error was answered: the call threw "Bad token", which it
\* had logged, and nothing is in flight
C21_ThrewWhatItLogged ==
    /\ settled.status = 404 /\ settled.threw
    /\ settled.message = "Bad token" /\ settled.logged = "Bad token"
    /\ net = EmptyBag

-----------------------------------------------------------------------------
(* C24 *)

\* C24, as first stated: a request carries, under every header name its
\* caller supplied, the caller's value, Authorization included.
C24_CallerAlwaysWins ==
    \A r \in InFlight(net) :
        /\ r.options.headers.ContentType # Null
               => r.headers.ContentType = r.options.headers.ContentType
        /\ r.options.headers.Authorization # Null
               => r.headers.Authorization = r.options.headers.Authorization

\* C24: a request carries the caller's Content-Type if the caller supplied
\* one, else application/json; the caller's Authorization is carried unless a
\* token is stored and skipAuth is unset, and then the request carries
\* "Bearer " and the stored token in its place.
C24_CallerWinsButBearer ==
    \A r \in InFlight(net) :
        /\ r.headers.ContentType =
               IF r.options.headers.ContentType # Null
               THEN r.options.headers.ContentType ELSE "application/json"
        /\ r.options.headers.Authorization # Null
               => r.headers.Authorization =
                      IF Truthy(r.token) /\ ~r.options.skipAuth
                      THEN "Bearer " \o r.token
                      ELSE r.options.headers.Authorization

\* a caller passed its own Content-Type and Authorization with a token
\* stored: the Content-Type is the caller's, the Authorization is the store's
C24_BearerReplacesCallers ==
    \E r \in InFlight(net) :
        /\ r.token = "T1" /\ ~r.options.skipAuth
        /\ r.options.headers = [ContentType |-> "text/plain", Authorization |-> "Basic abc"]
        /\ r.headers = [ContentType |-> "text/plain", Authorization |-> "Bearer T1"]

-----------------------------------------------------------------------------
(* C22 *)

\* what the modal shows for the answer resp
InsightText(resp) ==
    IF Failed(resp) \/ resp.kind = "text"
    THEN "Failed to load AI insights: " \o apiCallOutcome(resp).message
    ELSE IF resp.kind = "null"
    THEN "Failed to load AI insights: " \o NullInsightMessage
    ELSE resp.data

\* C22: every answer to an insight request, a success or a failure, becomes
\* the content of the modal when it arrives, whichever coin the modal names
\* and whether the modal is open; it changes neither the title nor whether
\* the modal is open. So the content is that of the answer that arrived last.
C22_LastAnswerWins ==
    [][\A r \in InFlight(net) : \A resp \in ResponsesTo(r) :
           (r.op = "insight" /\ InsightResponse(r, resp))
               => /\ insight'.content = InsightText(resp)
                  /\ insight'.name = insight.name
                  /\ insight'.open = insight.open]_vars

\* insights were asked for bitcoin, then for ethereum, the modal was closed,
\* and bitcoin's answer arrived last: the closed modal names ethereum and
\* holds the insights on bitcoin
C22_BitcoinUnderEthereum ==
    /\ net = EmptyBag
    /\ insight = [open |-> FALSE, name |-> "ethereum", content |-> "insights on bitcoin"]

-----------------------------------------------------------------------------
(* C25 *)

\* the fetches made per item: a card's valuation, a coin's insights, a search
PerItem(r) ==
    \/ r.op = "valuation" /\ r.from = "card"
    \/ r.op = "insight"
    \/ r.op = "search"

\* C25: when a card's valuation fetch, an insight fetch or a coin search
\* fails, init's position and the listeners stay as they are, the store and
\* the pending navigation are untouched, and of what is displayed only the
\* item's own part may change: the card of that portfolio, the content of the
\* insight modal, nothing for a search.
C25_PerItemFailureIsolated ==
    [][\A r \in InFlight(net) : \A resp \in ResponsesTo(r) :
           (PerItem(r) /\ apiCallOutcome(resp).threw /\ Delivers(r, resp))
               => /\ UNCHANGED <<store, location, guardRedirect, pc, listeners>>
                  /\ UNCHANGED <<userInfo, portfolios, listRegion, stats>>
                  /\ UNCHANGED <<portfolio, holdings, holdingsRegion, detailStats, results>>
                  /\ DOMAIN cards' = DOMAIN cards
                  /\ \A id \in DOMAIN cards :
                         (r.op # "valuation" \/ id # r.arg) => cards'[id] = cards[id]
                  /\ insight'.open = insight.open /\ insight'.name = insight.name
                  /\ r.op # "insight" => insight' = insight]_vars

\* the insight fetch of a row met no connectivity: the modal tells so, the
\* table, the listeners and the session stand, no navigation is pending
C25_InsightFailedAlone ==
    /\ page = "portfolio" /\ pc = "ready" /\ listeners
    /\ insight.content = "Failed to load AI insights: " \o FetchFailedMessage
    /\ holdingsRegion.kind = "table"
    /\ isAuthenticated(store) /\ location = Null

-----------------------------------------------------------------------------
(* C26 *)

\* C26: on the dashboard, once no valuation fetch is in flight, every card
\* shows the text of the answer that the valuation fetch of the latest render
\* got, whatever fetches of earlier renders were answered and in whatever
\* order.
C26_LatestRenderWins ==
    (page = "dashboard" /\ Count(net, "valuation", "card") = 0)
        => \A id \in DOMAIN cards : cards[id] = CardText(valArrived[id])

-----------------------------------------------------------------------------
(* C27 *)

\* the results are hidden because the field was shortened below 2 characters
\* or a coin was selected (the field then holds the coin, no typed value)
HiddenByUser ==
    /\ ~results.show /\ inputValue # ""
    /\ Len(trim(inputValue)) < MinQueryLength \/ inputValue \notin SearchInputs

\* the search r was issued before the latest search, whose answer has arrived
Superseded(r) ==
    /\ calls # <<>> /\ r.arg # calls[Len(calls)].query
    /\ \A q \in InFlight(net) : q.op = "search" => q.arg # calls[Len(calls)].query

\* C27: the answer to a search leaves the results hidden when the user hid
\* them by shortening the field below 2 characters or by selecting a coin,
\* and leaves the results as they are when a search issued later has been
\* answered already.
C27_LatestSearchShown ==
    [][\A r \in InFlight(net) : \A resp \in SearchResponses :
           (r.op = "search" /\ SearchResponse(r, resp))
               => /\ HiddenByUser => ~results'.show
                  /\ Superseded(r) => results' = results]_vars

-----------------------------------------------------------------------------
(* C28 *)

\* C28: in a detail view no portfolio, holdings or valuation fetch is ever in
\* flight for a null id, and once the redirect to the dashboard is pending
\* (the id was missing, or the portfolio fetch failed) no step of that
\* document puts a request in flight.
C28_RedirectEndsLoad ==
    /\ [](page = "portfolio"
             => \A r \in InFlight(net) :
                    r.op \in {"portfolio", "holdings", "valuation"} => r.arg # Null)
    /\ [][(page = "portfolio" /\ page' = "portfolio" /\ location = "dashboard.html")
             => \A r \in InFlight(net') : CopiesIn(r, net') <= CopiesIn(r, net)]_vars

-----------------------------------------------------------------------------
(* C29 *)

\* the answer is a failure to loadHoldings: apiCall threw, or the body is null
FailsLoad(resp) == apiCallOutcome(resp).threw \/ resp.kind = "null"

\* what a failed fetch of loadHoldings leaves behind: the inline error, the
\* stats, the store and the pending navigation as they were, and, when init
\* awaited it, the listeners set up
LoadFailedInline(r) ==
    /\ holdingsRegion' = ErrorRegion
    /\ UNCHANGED <<detailStats, store, location>>
    /\ r.from = "init" => listeners' /\ pc' = "ready"

\* C29: loadHoldings is entered with the holdings fetch alone; the valuation
\* fetch is issued by the step that takes the holdings fetch's success, and
\* by no other; when either fetch fails the holdings region shows the error,
\* no row is rendered, the stats stay, and init goes on to set the listeners.
C29_HoldingsThenValuation ==
    [][\A r \in InFlight(net) : \A resp \in ResponsesTo(r) :
           /\ (r.op = "portfolio" /\ DetailPortfolioResponse(r, resp))
                  => /\ Count(net', "holdings", "init") = 1
                     /\ Count(net', "valuation", "init") = 0
           /\ (r.op = "holdings" /\ DetailHoldingsResponse(r, resp))
                  => IF FailsLoad(resp)
                     THEN /\ LoadFailedInline(r)
                          /\ Count(net', "valuation", r.from) = Count(net, "valuation", r.from)
                     ELSE /\ Count(net', "valuation", r.from)
                                 = Count(net, "valuation", r.from) + 1
                          /\ UNCHANGED <<holdingsRegion, detailStats>>
           /\ (r.op = "valuation" /\ FailsLoad(resp) /\ DetailValuationResponse(r, resp))
                  => /\ LoadFailedInline(r)
                     /\ net' = Answered(net, r)]_vars

\* the holdings fetch brought one coin, the valuation fetch failed: the
\* region shows the error, the stats were never set, the listeners are set
C29_ValuationFailedInline ==
    /\ page = "portfolio" /\ pc = "ready" /\ listeners /\ adds = 0
    /\ holdings = <<"bitcoin">> /\ holdingsRegion = ErrorRegion
    /\ detailStats = NoDetailStats /\ net = EmptyBag

-----------------------------------------------------------------------------
(* C30 *)

\* a step of one of the handlers that setupEventListeners registers
ListenerStep ==
    \/ DashLogout \/ DetailLogout
    \/ CreatePortfolio \/ AddCoin
    \/ \E v \in SearchInputs : SearchInput(v)

\* C30: in a protected view the listeners are set only when init has run to
\* its end, with none of the fetches init awaits still in flight; they are
\* set by the step that ends init and stay set for as long as the document
\* lasts; and a logout, create, add-coin or search-input step is taken only
\* with the listeners set.
C30_ListenersAfterInit ==
    /\ [](page \in {"dashboard", "portfolio"} /\ listeners
             => /\ pc = "ready"
                /\ \A r \in InFlight(net) : r.from # "init")
    /\ [][/\ (~listeners /\ listeners') => pc # "ready" /\ pc' = "ready"
          /\ (listeners /\ ~listeners') => Navigate
          /\ ListenerStep => listeners /\ pc = "ready"]_vars

\* a detail view whose init awaits its last fetch, the valuation: the header
\* and the holdings are loaded, the listeners are not set yet
C30_AwaitingValuation ==
    /\ page = "portfolio" /\ pc = "loadHoldings" /\ ~listeners
    /\ portfolio = "Main" /\ holdings = <<"bitcoin">>
    /\ Count(net, "valuation", "init") = 1

-----------------------------------------------------------------------------
(* Completion handlers and their display targets (SpecDom) *)

\* the display location that the completion handler of request r writes to is
\* not in the document: the card of a portfolio that the latest render
\* dropped, or the holdings container of the detail view
TargetMissing(r) ==
    \/ page = "dashboard" /\ r.op = "valuation" /\ r.arg \notin DOMAIN cards
    \/ page = "portfolio" /\ r.op \in {"holdings", "valuation"}
           /\ "holdingsContainer" \in missing

\* C23: a completion handler whose display target no longer exists is a
\* silent no-op, on success and on failure alike: the answer changes nothing
\* that is displayed, the token store and the location stay as they were, and
\* no error reaches the caller (the page's init does not end in its catch).
C23_MissingTargetNoOp ==
    [][\A r \in InFlight(net) : \A resp \in ResponsesTo(r) :
          (Delivers(r, resp) /\ TargetMissing(r))
              => /\ UNCHANGED <<cards, stats, listRegion, holdingsRegion, detailStats>>
                 /\ UNCHANGED <<store, location>>
                 /\ pc' # "failed"]_vars

-----------------------------------------------------------------------------
(* Logging in and registering (SpecAuth) *)

\* C32: a login call carries skipAuth and no Authorization header, whatever
\* the store holds when it is issued; the answer to a login call that fails
\* leaves the store exactly as it was and schedules no redirect; and a
\* redirect to the dashboard is scheduled only by the step of a login that
\* succeeds, whose store is then the one saveToken has written.
C32_LoginBareAndSavedFirst ==
    /\ [](\A r \in InFlight(net) :
             r.op = "login"
                 => r.options.skipAuth /\ r.headers.Authorization = Null)
    /\ [][\A r \in InFlight(net) : \A resp \in LoginResponses(AuthPairs) :
             (LoginResponse(r, resp) /\ loginError(resp) # Null)
                 => UNCHANGED <<store, redirects, location>>]_vars
    /\ [][redirects' > redirects
             => \E r \in InFlight(net) : \E resp \in LoginResponses(AuthPairs) :
                    /\ LoginSucceeds(r, resp)
                    /\ store' = saveToken(store, resp.data.access_token,
                                          resp.data.refresh_token)]_vars

\* a login call is in flight that was issued over the tokens of an earlier
\* session and carries no Authorization header
C32_StaleTokenNotSent ==
    /\ page = "index"
    /\ store = [access_token |-> "T0", refresh_token |-> "R0"]
    /\ messageEl = showMessage("Logging in...", "success")
    /\ \E r \in InFlight(net) :
           r.op = "login" /\ r.token = "T0" /\ r.headers.Authorization = Null

\* C33: submitting the registration form with a password shorter than 8
\* characters issues no network call; the answer to a registration call,
\* success or failure, and the switch to the login form that follows a
\* success leave the store as it was and schedule or make no redirect, so an
\* unauthenticated user is still unauthenticated afterwards.
C33_RegistrationNeverSignsIn ==
    /\ [][\A password \in Passwords :
             (RegisterSubmit(password) /\ Len(password) < 8) => net' = net]_vars
    /\ [][\A r \in InFlight(net) : \A resp \in ResponsesTo(r) :
             (r.op = "register" /\ Delivers(r, resp))
                 => /\ UNCHANGED <<store, redirects, location>>
                    /\ ~isAuthenticated(store) => ~isAuthenticated(store')]_vars
    /\ [][RegisterSwitch => UNCHANGED <<store, redirects, location>>]_vars

\* an account was created from an entry view with nothing stored: the success
\* message is shown, the switch to the login form is pending, nothing is
\* stored and no redirect is scheduled
C33_AccountCreatedSignedOut ==
    /\ page = "index" /\ net = EmptyBag
    /\ messageEl = showMessage("Account created! Please login.", "success")
    /\ switches = 1 /\ redirects = 0 /\ location = Null
    /\ store = [access_token |-> Null, refresh_token |-> Null]

-----------------------------------------------------------------------------
(* The dashboard settles (SpecLive) *)

\* the list region shows the inline error, or the list was rendered and no
\* card of it still shows "Loading..."; and no call is in flight
DashSettled ==
    /\ \/ listRegion = "error"
       \/ /\ listRegion \in {"empty", "cards"}
          /\ \A id \in DOMAIN cards : cards[id] # "Loading..."
    /\ net = EmptyBag

\* C31: when every call issued is answered in the end, the dashboard opened
\* by a signed-in user, and any dashboard with a call in flight or a card
\* still loading, comes to a settled state: the list region shows the inline
\* error or every rendered card shows a value other than "Loading...", and no
\* call is in flight.
C31_DashboardSettles ==
    (page = "dashboard" /\ ~DashSettled) ~> DashSettled

\* the list was rendered twice, the second time after a create, and every
\* answer has arrived: one card shows the $0.00 of a failed fetch, the other
\* a formatted value
C31_SettledAfterReload ==
    /\ page = "dashboard" /\ pc = "ready" /\ creates = 1 /\ renders = 2
    /\ net = EmptyBag /\ listRegion = "cards"
    /\ DOMAIN cards = {"1", "2"}
    /\ valArrived["1"].threw /\ cards["1"] = "$0.00"
    /\ cards["2"] \notin {"$0.00", "Loading..."}

====
